---- MODULE Spec2Model ----
(***************************************************************************)
(* Session-lifecycle controller of the WhatsApp gateway                    *)
(* (src/simple-api-wwebjs-main/main.js).                                   *)
(*                                                                         *)
(* The module-level variables of main.js (client, qrValue, clientReady,    *)
(* initializing) are state variables.  Every async function is cut at its  *)
(* awaits: one action per run-to-completion segment of the event loop.     *)
(* The Automation Session Handle (whatsapp-web.js Client) and the          *)
(* Credential Store (MongoDB) are the environment: their outcomes are      *)
(* nondeterministic choices.                                               *)
(***************************************************************************)
EXTENDS Integers, Sequences, FiniteSets, TLC

(* ---------------- bounds of the model ---------------- *)
MaxInv == 2
MaxHandles == 2
MaxTimers == 1
MaxIntervals == 2
MaxDocs == 2
MaxPayload == 2
MaxBackups == 1
MaxSignals == 1
MaxSends == 1

(* ---------------- program constants ---------------- *)
MAX_INIT_RETRIES == 6
BACKOFF_BASE_MS == 2000
BACKOFF_CAP_MS == 30000

VARIABLES
    client,        \* main.js:26  0 is null, otherwise the handle it refers to
    qrValue,       \* main.js:27  "null" or the current Challenge Token
    clientReady,   \* main.js:28
    initializing,  \* main.js:29
    handles,       \* the Client objects constructed so far (environment side)
    inv,           \* the invocations of initClient, each at one of its awaits
    sessions,      \* collection "sessions": a set of documents, unique by id
    snapshot,      \* collection "sessions_backup", document _id "latest"
    settleTimers,  \* pending setTimeout(…, 15000) of the disconnected handler
    intervals,    \* setInterval(…, 30000) installed after exhausted retries
    proc,          \* the process: boot (the listen callback has not run
                   \* yet), up, exited
    exitCode,      \* -1 while running, else the argument of process.exit
    mongo,         \* mongoose connection: init, connected, failed, closed
    env,           \* process.env and the store's health, fixed per run
    out,           \* what the last handler step did (event, response, persists)
    hist,          \* history of the store operations (pure-function checks)
    tasks          \* the other async functions waiting at an await: the
                   \* listen callback, disconnected handlers, backups started
                   \* by ready handlers, SIGTERM handlers, send requests

vars == <<client, qrValue, clientReady, initializing, handles, inv, sessions,
          snapshot, settleTimers, intervals, proc, exitCode, mongo, env, out, hist,
          tasks>>

ctl == <<client, clientReady, qrValue, initializing>>

(* ---------------- documents and collections ---------------- *)
DocIds == 1..MaxDocs
Payloads == 1..MaxPayload
Docs == [id : DocIds, v : Payloads]

\* the Credential Record the handle's RemoteAuth strategy keeps for its clientId
CredDoc == [id |-> 1, v |-> 1]

UniqueIds(coll) == \A a, b \in coll : a.id = b.id => a = b
Collections == {c \in SUBSET Docs : UniqueIds(c)}

\* find({}).toArray(): the documents of a collection, each once, in the
\* order the store yields them; the code asks for no order, so every order
\* is a possible result
ToArray(coll) ==
    {a \in [1..Cardinality(coll) -> coll] :
        \A i, j \in 1..Cardinality(coll) : a[i] = a[j] => i = j}

NoSnapshot == [has |-> FALSE, data |-> <<>>]

\* updateOne({_id: doc._id}, {$set: doc}, {upsert: true})
Upsert(coll, doc) == {d \in coll : d.id # doc.id} \cup {doc}

\* a backup that appends to the slot instead of overwriting it
backupSessionsAppend(arr, snap, ok) ==
    IF ok THEN [has |-> TRUE, data |-> snap.data \o arr] ELSE snap

\* backupSessions, given the array its find returned: overwrite
\* sessions_backup.latest with it; any store error is caught and logged, the
\* slot is then left as it was
backupSessions(arr, snap, ok) ==
    IF ok THEN [has |-> TRUE, data |-> arr] ELSE snap

\* a restore that goes on whatever the primary collection holds
RestoreSkipsNever(count) == FALSE

\* main.js:72: restoreSessionsIfMissing returns false, before it reads the
\* backup slot, when the primary collection holds a document
RestoreSkips(count) == count > 0

\* main.js:74: if (!backup?.data?.length) return false
NothingToRestore(snap) == ~snap.has \/ Len(snap.data) = 0

(* ---------------- retry policy ---------------- *)
Min(a, b) == IF a <= b THEN a ELSE b

RECURSIVE Pow2(_)
Pow2(n) == IF n = 0 THEN 1 ELSE 2 * Pow2(n - 1)

\* the delay without its cap
waitMsUncapped(attempt) == BACKOFF_BASE_MS * Pow2(attempt)

\* Math.min(30000, 2000 * Math.pow(2, attempt))
waitMs(attempt) == Min(BACKOFF_CAP_MS, BACKOFF_BASE_MS * Pow2(attempt))

(* ---------------- async functions waiting at an await ---------------- *)
\* boot: the listen callback (main.js:297-308) inside connectMongo; pc is
\*   none (not started), connect, list, count, rcount, rfind, rwrite or done;
\*   data and i are the array the restore read from the backup slot and the
\*   index of the document being written; fault is the first operation of
\*   the restore that failed
\* closing: the disconnected handlers awaiting destroy()
\* backups: the backupSessions() calls of ready handlers, at their find or
\*   at their updateOne, with the array the find returned
\* terms: the SIGTERM handlers, at find, update or close; *_hung when the
\*   awaited operation never settles
\* sends: the requests awaiting client.sendMessage
NoBoot == [pc |-> "none", data |-> <<>>, i |-> 0, fault |-> "none"]

NoTasks == [boot |-> NoBoot, closing |-> 0, backups |-> <<>>, terms |-> <<>>,
            sends |-> <<>>]

RemoveAt(seq, k) == [i \in 1..(Len(seq) - 1) |-> IF i < k THEN seq[i] ELSE seq[i + 1]]

\* a SIGTERM handler has called mongoose.connection.close()
Closing == \E k \in 1..Len(tasks.terms) : tasks.terms[k].pc \in {"close", "close_hung"}

(* ---------------- environment of one run ---------------- *)
\* outcomes of one Credential Store operation: it can fail on a flaky store
\* and once the connection is being closed
Outcomes == IF env.flaky \/ Closing THEN BOOLEAN ELSE {TRUE}

\* x-password header values
Headers == {"undefined", "secret", "wrong"}
Fields == {"", "x"}

NoOut == [ev |-> "none"]

(* ---------------- handles (Client objects) ---------------- *)
\* A handle is "starting" while a client.initialize() call on it is pending,
\* "up" once that call resolved, "failed" once it rejected, "dead" once
\* destroy() was called on it.  The library is not part of the repository
\* and no version of it is pinned: in some versions initialize() resolves
\* before the session is authenticated, in others only after it has emitted
\* ready.  So a handle emits its events while it is starting or up:
\*   qr            not authenticated, whatever the store holds (a stored
\*                 record may no longer be accepted, and with
\*                 restartOnAuthFail, main.js:182, the handle then starts a
\*                 new login);
\*   ready         not authenticated yet, with a record in the store or a
\*                 challenge issued;
\*   auth_failure  at any time;
\*   disconnected  once authenticated.
\* A failed or dead handle emits nothing until it is initialized again.
\* faulted: the handle has emitted auth_failure since its last initialize call.
HandleIds == 1..MaxHandles
NoHandle == [st |-> "free", authed |-> FALSE, challenged |-> FALSE, fresh |-> FALSE,
             faulted |-> FALSE]

Live(h) == handles[h].st \in {"starting", "up"}
LiveHandles == {h \in HandleIds : Live(h)}

\* the store holds a Credential Record the handle can resume from
HasCred == sessions # {}

Reusable == {h \in HandleIds : handles[h].st \in {"free", "dead"}}

\* client.destroy(): the browser is closed, the object stays referenced
Destroyed(hs, h) ==
    IF h = 0 THEN hs
    ELSE [hs EXCEPT ![h] = [st |-> "dead", authed |-> FALSE,
                            challenged |-> FALSE, fresh |-> hs[h].fresh,
                            faulted |-> hs[h].faulted]]

(* ---------------- invocations of initClient ---------------- *)
InvIds == 1..MaxInv
\* via: the call site the invocation was started from (start, settle, interval)
\* found: the result of the presence check (hasSession)
Idle == [pc |-> "idle", attempt |-> 0, fresh |-> FALSE, wait |-> 0, prevWait |-> 0,
         via |-> "none", found |-> FALSE]

IdleSlots == {s \in InvIds : inv[s].pc = "idle"}
FreeSlot == CHOOSE s \in IdleSlots : \A t \in IdleSlots : s <= t

\* invocations that passed the guard and have not yet released it
InFlight == {s \in InvIds : inv[s].pc # "idle"}

\* the process has not exited: its callbacks still run
Running == proc # "exited"

\* main.js:211, 238, 303: initClient() is called without await and without
\* catch, and main.js registers no unhandledRejection handler: when the
\* function throws, its promise is rejected and unhandled, and the runtime
\* ends the process with exit code 1 before any other callback runs
UnhandledRejection ==
    /\ proc' = "exited"
    /\ exitCode' = 1

\* initClient() without its reentrancy guard
initClientCallUnguarded(via) ==
    /\ IF IdleSlots = {}
       THEN UNCHANGED <<initializing, inv>>
       ELSE /\ initializing' = TRUE
            /\ inv' = [inv EXCEPT ![FreeSlot] = [Idle EXCEPT !.pc = "probe",
                                                             !.via = via]]
    /\ UNCHANGED <<proc, exitCode>>

\* initClient(), up to its first await (main.js:122-132): the reentrancy
\* guard, then the flag, then `new MongoStore` and the query for the presence
\* of a session.  There is no try around the constructor (main.js:127): when
\* it throws, the flag stays set and the invocation is over
initClientCall(via) ==
    IF initializing \/ IdleSlots = {}
    THEN UNCHANGED <<initializing, inv, proc, exitCode>>
    ELSE \/ /\ initializing' = TRUE
            /\ inv' = [inv EXCEPT ![FreeSlot] = [Idle EXCEPT !.pc = "probe",
                                                             !.via = via]]
            /\ UNCHANGED <<proc, exitCode>>
         \/ /\ env.throws
            /\ initializing' = TRUE
            /\ UNCHANGED inv
            /\ UnhandledRejection

\* a launch mode that ignores FORCE_PUPPETEER
FreshModeIgnoresFlag(hasSession, forceP) == ~hasSession

\* main.js:138-165: the launch mode; fresh is the full puppeteer options,
\* resume is puppeteer: undefined
FreshMode(hasSession, forceP) == ~hasSession \/ forceP

\* main.js:174-221: new Client, the four handlers, attempt 1 and the first
\* client.initialize() call; hs is the handle table to build on.  The step's
\* output records the mode, the call site of the invocation, whether a
\* settle timer of an earlier disconnect was still pending, and the number of
\* handles built earlier on which destroy() was not called.
\* There is no try around new Client and the handler registrations
\* (main.js:174-213): when the constructor throws, `client` is still null,
\* the flag stays set and the invocation is over
Construct(s, found, fresh, hs) ==
    \/ /\ Reusable # {}
       /\ LET h == CHOOSE x \in HandleIds :
                     /\ hs[x].st \in {"free", "dead"}
                     /\ \A g \in HandleIds : hs[g].st \in {"free", "dead"} => x <= g
          IN /\ client' = h
             /\ handles' = [hs EXCEPT ![h] = [st |-> "starting", authed |-> FALSE,
                                              challenged |-> FALSE, fresh |-> fresh,
                                              faulted |-> FALSE]]
       /\ inv' = [inv EXCEPT ![s] = [pc |-> "init", attempt |-> 1, fresh |-> fresh,
                                     wait |-> 0, prevWait |-> 0, via |-> inv[s].via,
                                     found |-> found]]
       /\ out' = [ev |-> "construct", fresh |-> fresh, found |-> found,
                  via |-> inv[s].via,
                  settlePending |-> settleTimers > 0,
                  undestroyed |-> Cardinality({g \in HandleIds :
                                      hs[g].st \in {"starting", "up", "failed"}})]
       /\ UNCHANGED <<proc, exitCode>>
    \/ /\ env.throws
       /\ client' = 0
       /\ handles' = hs
       /\ inv' = [inv EXCEPT ![s] = Idle]
       /\ out' = [ev |-> "threw", at |-> "client", via |-> inv[s].via]
       /\ UnhandledRejection

\* an initClient that never tears the existing client down
MustDestroyNever(c) == FALSE

\* main.js:168: if (client)
MustDestroy(c) == c # 0

\* main.js:129-172: countDocuments has settled; the mode is chosen; an
\* existing client is destroyed (await), otherwise the handle is built.  The
\* output of a destroy records the call site, whether the controller was
\* Ready and whether the handle was healthy: initialized, with no auth_failure
\* and no disconnected event since
ProbeDone(s) ==
    /\ Running
    /\ inv[s].pc = "probe"
    /\ \E ok \in Outcomes :
         LET hasSession == ok /\ Cardinality(sessions) > 0
             fresh == FreshMode(hasSession, env.forceP)
         IN IF MustDestroy(client)
            THEN /\ handles' = Destroyed(handles, client)
                 /\ inv' = [inv EXCEPT ![s] = [Idle EXCEPT !.pc = "destroy",
                                                          !.fresh = fresh,
                                                          !.via = inv[s].via,
                                                          !.found = hasSession]]
                 /\ out' = [ev |-> "destroy", via |-> inv[s].via,
                            wasReady |-> clientReady,
                            healthy |-> /\ handles[client].st = "up"
                                        /\ ~handles[client].faulted,
                            challenged |-> handles[client].challenged]
                 /\ UNCHANGED <<client, proc, exitCode>>
            ELSE Construct(s, hasSession, fresh, handles)
    /\ UNCHANGED <<qrValue, clientReady, initializing, sessions, snapshot,
                   settleTimers, intervals, mongo, env, hist, tasks>>

\* main.js:170-221: destroy has settled; client = null; clientReady = false;
\* then the replacement handle is built and initialized
DestroyDone(s) ==
    /\ Running
    /\ inv[s].pc = "destroy"
    /\ clientReady' = FALSE
    /\ Construct(s, inv[s].found, inv[s].fresh, handles)
    /\ UNCHANGED <<qrValue, initializing, sessions, snapshot, settleTimers,
                   intervals, mongo, env, hist, tasks>>

\* main.js:221-224: client.initialize() resolved
InitOk(s) ==
    /\ Running
    /\ inv[s].pc = "init"
    /\ client # 0 /\ handles[client].st = "starting"
    /\ handles' = [handles EXCEPT ![client].st = "up"]
    /\ initializing' = FALSE
    /\ inv' = [inv EXCEPT ![s] = Idle]
    /\ out' = NoOut
    /\ UNCHANGED <<client, qrValue, clientReady, sessions, snapshot, settleTimers,
                   intervals, proc, exitCode, mongo, env, hist, tasks>>

\* main.js:225-229: client.initialize() rejected; the backoff wait starts
InitFail(s) ==
    /\ Running
    /\ inv[s].pc = "init"
    /\ client # 0 /\ handles[client].st \in {"starting", "dead"}
    /\ handles' = [handles EXCEPT ![client].st =
                      IF @ = "starting" THEN "failed" ELSE @,
                                  ![client].challenged = FALSE]
    /\ inv' = [inv EXCEPT ![s].pc = "backoff",
                          ![s].prevWait = inv[s].wait,
                          ![s].wait = waitMs(inv[s].attempt)]
    /\ out' = NoOut
    /\ UNCHANGED <<client, qrValue, clientReady, initializing, sessions, snapshot,
                   settleTimers, intervals, proc, exitCode, mongo, env, hist, tasks>>

\* a retry loop that allows one attempt more than the ceiling
RetryAllowedInclusive(attempt) == attempt <= MAX_INIT_RETRIES

\* main.js:217: the condition of the retry loop
RetryAllowed(attempt) == attempt < MAX_INIT_RETRIES

\* an exhausted launch that installs no periodic re-check
setIntervalNever(n) == n

\* main.js:237-239: setInterval(..., 30000); the intervals installed so far
\* all tick alike, so they are counted up to a bound
setIntervalRecheck(n) == Min(n + 1, MaxIntervals)

\* main.js:217-221 and 233-239: the wait is over; either the next attempt on
\* the same handle, or the retries are exhausted: the guard is released and a
\* 30 s interval is installed
BackoffDone(s) ==
    /\ Running
    /\ inv[s].pc = "backoff"
    /\ IF RetryAllowed(inv[s].attempt)
       THEN /\ inv' = [inv EXCEPT ![s].pc = "init", ![s].attempt = @ + 1]
            /\ handles' = [handles EXCEPT ![client].st = "starting",
                                          ![client].authed = FALSE,
                                          ![client].faulted = FALSE]
            /\ out' = NoOut
            /\ UNCHANGED <<initializing, intervals>>
       ELSE /\ initializing' = FALSE
            /\ inv' = [inv EXCEPT ![s] = Idle]
            /\ intervals' = setIntervalRecheck(intervals)
            /\ out' = [ev |-> "exhausted", attempts |-> inv[s].attempt,
                       via |-> inv[s].via, cycles |-> intervals]
            /\ UNCHANGED handles
    /\ UNCHANGED <<client, qrValue, clientReady, sessions, snapshot, settleTimers,
                   proc, exitCode, mongo, env, hist, tasks>>

(* ---------------- events of the handle ---------------- *)
\* a ready handler that forgets the backup
readyHandlerNoPersist == [clientReady |-> TRUE, qrValue |-> "null", persists |-> 0]

\* main.js:191-197: what the ready handler does: the flag, the token, and
\* the number of backupSessions() calls it makes
readyHandler == [clientReady |-> TRUE, qrValue |-> "null", persists |-> 1]

\* main.js:204-207: what the disconnected handler does before its first await
disconnectedHandler == [clientReady |-> FALSE, destroys |-> TRUE]

\* main.js:186-189  client.on("qr"): the handler stores the Challenge Token
\* the handle emits
OnQr(h) ==
    /\ Running
    /\ Live(h) /\ ~handles[h].authed
    /\ qrValue' = "qr"
    /\ handles' = [handles EXCEPT ![h].challenged = TRUE]
    /\ out' = [ev |-> "qr", wasReady |-> clientReady]
    /\ UNCHANGED <<client, clientReady, initializing, inv, sessions, snapshot,
                   settleTimers, intervals, proc, exitCode, mongo, env, hist, tasks>>

\* main.js:191-197  client.on("ready") up to its await: flag, token, then
\* backupSessions() is called and its find is pending.  Without a connection
\* the find throws at once (connection.db is undefined) and nothing is pending
OnReady(h) ==
    /\ Running
    /\ Live(h) /\ ~handles[h].authed
    /\ HasCred \/ handles[h].challenged
    /\ Len(tasks.backups) + readyHandler.persists <= MaxBackups
    /\ clientReady' = readyHandler.clientReady
    /\ qrValue' = (IF readyHandler.qrValue = "null" THEN "null" ELSE qrValue)
    /\ tasks' = [tasks EXCEPT !.backups =
                    IF mongo = "connected"
                    THEN @ \o [i \in 1..readyHandler.persists |->
                                  [pc |-> "find", data |-> <<>>]]
                    ELSE @]
    /\ out' = [ev |-> "ready", persists |-> readyHandler.persists,
               hadQr |-> qrValue # "null", wasReady |-> clientReady]
    /\ handles' = [handles EXCEPT ![h].authed = TRUE, ![h].challenged = FALSE]
    /\ UNCHANGED <<client, initializing, inv, sessions, snapshot, settleTimers,
                   intervals, proc, exitCode, mongo, env, hist>>

\* main.js:57: the find of a ready handler's backupSessions has settled; the
\* updateOne is issued with the array it returned; a rejection is caught and
\* ends the backup
BackupFindDone(k) ==
    /\ Running
    /\ k \in 1..Len(tasks.backups)
    /\ tasks.backups[k].pc = "find"
    /\ \E ok \in Outcomes :
         IF ok
         THEN /\ \E arr \in ToArray(sessions) :
                   tasks' = [tasks EXCEPT !.backups[k] =
                                [pc |-> "update", data |-> arr]]
              /\ out' = NoOut
         ELSE /\ tasks' = [tasks EXCEPT !.backups = RemoveAt(@, k)]
              /\ out' = [ev |-> "backup", from |-> "ready", backupOk |-> FALSE,
                          pre |-> ctl]
    /\ UNCHANGED <<client, qrValue, clientReady, initializing, handles, inv,
                   sessions, snapshot, settleTimers, intervals, proc, exitCode,
                   mongo, env, hist>>

\* main.js:58-66: the updateOne of a ready handler's backupSessions has
\* settled
BackupUpdateDone(k) ==
    /\ Running
    /\ k \in 1..Len(tasks.backups)
    /\ tasks.backups[k].pc = "update"
    /\ \E ok \in Outcomes :
         /\ snapshot' = backupSessions(tasks.backups[k].data, snapshot, ok)
         /\ out' = [ev |-> "backup", from |-> "ready", backupOk |-> ok,
                    pre |-> ctl]
    /\ tasks' = [tasks EXCEPT !.backups = RemoveAt(@, k)]
    /\ UNCHANGED <<client, qrValue, clientReady, initializing, handles, inv,
                   sessions, settleTimers, intervals, proc, exitCode, mongo, env,
                   hist>>

\* main.js:199-202  client.on("auth_failure")
OnAuthFailure(h) ==
    /\ Running
    /\ Live(h)
    /\ clientReady' = FALSE
    /\ handles' = [handles EXCEPT ![h].authed = FALSE, ![h].faulted = TRUE]
    /\ out' = [ev |-> "auth_failure", wasReady |-> clientReady]
    /\ UNCHANGED <<client, qrValue, initializing, inv, sessions, snapshot,
                   settleTimers, intervals, proc, exitCode, mongo, env, hist, tasks>>

\* main.js:204-207  client.on("disconnected") up to its await: the flag, then
\* destroy() is called on the current client and is pending
OnDisconnected(h) ==
    /\ Running
    /\ Live(h) /\ handles[h].authed
    /\ tasks.closing + settleTimers < MaxTimers
    /\ clientReady' = (disconnectedHandler.clientReady /\ clientReady)
    /\ handles' = (IF disconnectedHandler.destroys
                   THEN Destroyed(handles, client) ELSE handles)
    /\ tasks' = [tasks EXCEPT !.closing = @ + 1]
    /\ out' = [ev |-> "disconnected", wasReady |-> clientReady]
    /\ UNCHANGED <<client, qrValue, initializing, inv, sessions, snapshot,
                   settleTimers, intervals, proc, exitCode, mongo, env, hist>>

\* main.js:207-212: the destroy() of a disconnected handler has settled
\* (a rejection is caught); the 15 s settle timer is set
DisconnectedDone ==
    /\ Running
    /\ tasks.closing > 0
    /\ tasks' = [tasks EXCEPT !.closing = @ - 1]
    /\ settleTimers' = settleTimers + 1
    /\ out' = [ev |-> "settle_set", pending |-> settleTimers + 1]
    /\ UNCHANGED <<client, qrValue, clientReady, initializing, handles, inv,
                   sessions, snapshot, intervals, proc, exitCode, mongo, env, hist>>

\* the RemoteAuth strategy of an authenticated handle saves its Credential
\* Record through the store (main.js:127, 175-179)
StoreSave ==
    /\ Running
    /\ mongo = "connected"
    /\ \E h \in HandleIds : Live(h) /\ handles[h].authed
    /\ CredDoc \notin sessions
    /\ sessions' = Upsert(sessions, CredDoc)
    /\ out' = NoOut
    /\ UNCHANGED <<client, qrValue, clientReady, initializing, handles, inv,
                   snapshot, settleTimers, intervals, proc, exitCode, mongo, env,
                   hist, tasks>>

(* ---------------- timers ---------------- *)
\* main.js:209-212: the settle timer fires and calls initClient()
SettleTimerFire ==
    /\ Running
    /\ settleTimers > 0
    /\ settleTimers' = settleTimers - 1
    /\ initClientCall("settle")
    /\ out' = [ev |-> "settle", dropped |-> initializing]
    /\ UNCHANGED <<client, qrValue, clientReady, handles, sessions, snapshot,
                   intervals, mongo, env, hist, tasks>>

\* main.js:237-239: a tick of the 30 s interval; a tick that finds the
\* controller initializing or ready does nothing
IntervalTick ==
    /\ Running
    /\ intervals > 0
    /\ ~initializing /\ ~clientReady
    /\ initClientCall("interval")
    /\ out' = NoOut
    /\ UNCHANGED <<client, qrValue, clientReady, handles, sessions, snapshot,
                   settleTimers, intervals, mongo, env, hist, tasks>>

(* ---------------- startup ---------------- *)
\* a connectMongo that never calls the restore
RestoreNever(count) == FALSE

\* main.js:110: connectMongo calls restoreSessionsIfMissing() when the count
\* of `sessions` is 0
RestoreWhenEmpty(count) == count = 0

\* a restore whose catch rethrows, so that the error reaches connectMongo
restoreCatchRethrows(fault) == [threw |-> TRUE, restored |-> FALSE]

\* main.js:85-88: the catch of restoreSessionsIfMissing: the error of the
\* count or of the read of the backup slot is logged and false is returned
restoreCatch(fault) == [threw |-> FALSE, restored |-> FALSE]

\* main.js:300-306: initClient() is called only when connectMongo returned
LaunchAfter(threw) == ~threw

\* main.js:300-306: connectMongo has returned or thrown: the listen callback
\* calls initClient() (up to its first await) or logs the startup error
BootEnd(threw, restored, fault) ==
    /\ tasks' = [tasks EXCEPT !.boot = [NoBoot EXCEPT !.pc = "done"]]
    /\ out' = [ev |-> "startup", error |-> threw, restored |-> restored,
               fault |-> fault]
    /\ IF LaunchAfter(threw) THEN initClientCall("start")
       ELSE UNCHANGED <<initializing, inv, proc, exitCode>>

\* main.js:297-300 and 95: the listen callback runs up to mongoose.connect
Listen ==
    /\ proc = "boot"
    /\ proc' = "up"
    /\ tasks' = [tasks EXCEPT !.boot = [NoBoot EXCEPT !.pc = "connect"]]
    /\ out' = NoOut
    /\ UNCHANGED <<client, qrValue, clientReady, initializing, handles, inv,
                   sessions, snapshot, settleTimers, intervals, exitCode, mongo,
                   env, hist>>

\* main.js:95-103: mongoose.connect has settled; a rejection ends the startup
BootConnectDone ==
    /\ Running
    /\ tasks.boot.pc = "connect"
    /\ \E ok \in Outcomes :
         IF ok
         THEN /\ mongo' = "connected"
              /\ tasks' = [tasks EXCEPT !.boot.pc = "list"]
              /\ out' = NoOut
              /\ UNCHANGED <<initializing, inv, proc, exitCode>>
         ELSE /\ mongo' = "failed"
              /\ BootEnd(TRUE, FALSE, "none")
    /\ UNCHANGED <<client, qrValue, clientReady, handles, sessions, snapshot,
                   settleTimers, intervals, env, hist>>

\* main.js:102-109: listCollections has settled (a rejection is caught and
\* logged); the count of `sessions` is issued
BootListDone ==
    /\ Running
    /\ tasks.boot.pc = "list"
    /\ tasks' = [tasks EXCEPT !.boot.pc = "count"]
    /\ out' = NoOut
    /\ UNCHANGED <<client, qrValue, clientReady, initializing, handles, inv,
                   sessions, snapshot, settleTimers, intervals, proc, exitCode,
                   mongo, env, hist>>

\* main.js:109-116 and 71: the count has settled: a rejection ends the
\* startup; 0 calls restoreSessionsIfMissing, whose own count is issued;
\* otherwise connectMongo returns
BootCountDone ==
    /\ Running
    /\ tasks.boot.pc = "count"
    /\ \E ok \in Outcomes :
         IF ~ok THEN BootEnd(TRUE, FALSE, "none")
         ELSE IF RestoreWhenEmpty(Cardinality(sessions))
         THEN /\ tasks' = [tasks EXCEPT !.boot.pc = "rcount"]
              /\ out' = NoOut
              /\ UNCHANGED <<initializing, inv, proc, exitCode>>
         ELSE BootEnd(FALSE, FALSE, "none")
    /\ UNCHANGED <<client, qrValue, clientReady, handles, sessions, snapshot,
                   settleTimers, intervals, mongo, env, hist>>

\* main.js:71-73: the count inside the restore has settled
BootRestoreCountDone ==
    /\ Running
    /\ tasks.boot.pc = "rcount"
    /\ \E ok \in Outcomes :
         IF ~ok THEN BootEnd(restoreCatch("count").threw,
                             restoreCatch("count").restored, "count")
         ELSE IF RestoreSkips(Cardinality(sessions))
         THEN BootEnd(FALSE, FALSE, "none")
         ELSE /\ tasks' = [tasks EXCEPT !.boot.pc = "rfind"]
              /\ out' = NoOut
              /\ UNCHANGED <<initializing, inv, proc, exitCode>>
    /\ UNCHANGED <<client, qrValue, clientReady, handles, sessions, snapshot,
                   settleTimers, intervals, mongo, env, hist>>

\* main.js:73-78: the findOne of the backup slot has settled; with documents
\* in it the first updateOne is issued
BootRestoreFindDone ==
    /\ Running
    /\ tasks.boot.pc = "rfind"
    /\ \E ok \in Outcomes :
         IF ~ok THEN BootEnd(restoreCatch("find").threw,
                             restoreCatch("find").restored, "find")
         ELSE IF NothingToRestore(snapshot)
         THEN BootEnd(FALSE, FALSE, "none")
         ELSE /\ tasks' = [tasks EXCEPT !.boot =
                              [pc |-> "rwrite", data |-> snapshot.data, i |-> 1,
                               fault |-> "none"]]
              /\ out' = NoOut
              /\ UNCHANGED <<initializing, inv, proc, exitCode>>
    /\ UNCHANGED <<client, qrValue, clientReady, handles, sessions, snapshot,
                   settleTimers, intervals, mongo, env, hist>>

\* main.js:76-84: the updateOne of document i has settled (a rejection is
\* caught and logged); the next one is issued, or the restore returns true
BootRestoreWriteDone ==
    /\ Running
    /\ tasks.boot.pc = "rwrite"
    /\ \E ok \in Outcomes :
         LET b == tasks.boot
             fault == IF ok THEN b.fault ELSE "write"
         IN /\ sessions' = (IF ok THEN Upsert(sessions, b.data[b.i]) ELSE sessions)
            /\ IF b.i < Len(b.data)
               THEN /\ tasks' = [tasks EXCEPT !.boot.i = @ + 1,
                                              !.boot.fault = fault]
                    /\ out' = NoOut
                    /\ UNCHANGED <<initializing, inv, proc, exitCode>>
               ELSE BootEnd(FALSE, TRUE, fault)
    /\ UNCHANGED <<client, qrValue, clientReady, handles, snapshot, settleTimers,
                   intervals, mongo, env, hist>>

(* ---------------- shutdown ---------------- *)
\* a hook that exits with an error code when the close fails
exitStatusFromClose(closeOk) == IF closeOk THEN 0 ELSE 1

\* main.js:318-320: finally { process.exit(0) }
exitStatus(closeOk) == 0

\* an awaited store operation of the SIGTERM handler: when the store has
\* stopped answering it may never settle (nothing bounds the await), and the
\* handler then stays there
MayHang(pc) == IF env.hangs THEN {pc, pc \o "_hung"} ELSE {pc}

\* main.js:311-315  SIGTERM: the handler is registered at module load and
\* runs at every signal.  It calls backupSessions(), whose find is then
\* pending; without a connection the find throws at once, the error is caught
\* and the handler is at its close()
Sigterm ==
    /\ Running
    /\ Len(tasks.terms) < env.signals
    /\ \E pc \in (IF mongo = "connected" THEN MayHang("find")
                  ELSE MayHang("close")) :
         tasks' = [tasks EXCEPT !.terms = Append(@, [pc |-> pc, data |-> <<>>])]
    /\ out' = [ev |-> "sigterm", persists |-> 1,
               issued |-> mongo = "connected"]
    /\ UNCHANGED <<client, qrValue, clientReady, initializing, handles, inv,
                   sessions, snapshot, settleTimers, intervals, proc, exitCode,
                   mongo, env, hist>>

\* main.js:57-58 and 314-315: the find of the handler's backup has settled:
\* the updateOne is issued with the array it returned; a rejection is caught,
\* the backup ends and close() is called
TermFindDone(k) ==
    /\ Running
    /\ k \in 1..Len(tasks.terms)
    /\ tasks.terms[k].pc = "find"
    /\ \E ok \in Outcomes :
         IF ok
         THEN /\ \E arr \in ToArray(sessions), pc \in MayHang("update") :
                   tasks' = [tasks EXCEPT !.terms[k] = [pc |-> pc, data |-> arr]]
              /\ out' = NoOut
         ELSE /\ \E pc \in MayHang("close") :
                   tasks' = [tasks EXCEPT !.terms[k] = [pc |-> pc, data |-> <<>>]]
              /\ out' = [ev |-> "term_backup", backupOk |-> FALSE, pre |-> ctl]
    /\ UNCHANGED <<client, qrValue, clientReady, initializing, handles, inv,
                   sessions, snapshot, settleTimers, intervals, proc, exitCode,
                   mongo, env, hist>>

\* main.js:58-66 and 314-315: the updateOne of the handler's backup has
\* settled; close() is called
TermUpdateDone(k) ==
    /\ Running
    /\ k \in 1..Len(tasks.terms)
    /\ tasks.terms[k].pc = "update"
    /\ \E ok \in Outcomes :
         /\ snapshot' = backupSessions(tasks.terms[k].data, snapshot, ok)
         /\ out' = [ev |-> "term_backup", backupOk |-> ok, pre |-> ctl]
    /\ \E pc \in MayHang("close") :
         tasks' = [tasks EXCEPT !.terms[k] = [pc |-> pc, data |-> <<>>]]
    /\ UNCHANGED <<client, qrValue, clientReady, initializing, handles, inv,
                   sessions, settleTimers, intervals, proc, exitCode, mongo, env,
                   hist>>

\* main.js:315-320: close has settled either way; finally process.exit(0)
TermCloseDone(k) ==
    /\ Running
    /\ k \in 1..Len(tasks.terms)
    /\ tasks.terms[k].pc = "close"
    /\ proc' = "exited"
    /\ \E closeOk \in Outcomes :
         /\ exitCode' = exitStatus(closeOk /\ mongo = "connected")
         /\ mongo' = (IF closeOk /\ mongo = "connected" THEN "closed" ELSE mongo)
         /\ out' = [ev |-> "exit", closeOk |-> closeOk /\ mongo = "connected"]
    /\ UNCHANGED <<client, qrValue, clientReady, initializing, handles, inv,
                   sessions, snapshot, settleTimers, intervals, env, hist, tasks>>

(* ---------------- the send endpoint ---------------- *)
\* the endpoint without its readiness check
AdmitNoReadyCheck(hdr, phone, message, ready) ==
    IF hdr # env.password THEN 401
    ELSE IF phone = "" \/ message = "" THEN 400
    ELSE 0

\* the endpoint validating the body before the secret
AdmitBodyFirst(hdr, phone, message, ready) ==
    IF phone = "" \/ message = "" THEN 400
    ELSE IF hdr # env.password THEN 401
    ELSE IF ~ready THEN 503
    ELSE 0

\* main.js:270-275: the checks of a request before the dispatch: the status
\* it is refused with, or 0 when it goes on to client.sendMessage
Admit(hdr, phone, message, ready) ==
    IF hdr # env.password THEN 401
    ELSE IF phone = "" \/ message = "" THEN 400
    ELSE IF ~ready THEN 503
    ELSE 0

\* main.js:277-282: the status once client.sendMessage has settled
SendStatus(dispatchOk) == IF dispatchOk THEN 200 ELSE 500

\* part_003:21  process.env.WHATSAPP_API_PASSWORD || ""
P3Password(pw) == IF pw = "undefined" THEN "" ELSE pw

\* part_003:240-245  POST /whatsapp/send before the dispatch: the secret is
\* compared only when one is configured
P3Admit(hdr, pw, phone, message, ready) ==
    IF P3Password(pw) # "" /\ hdr # P3Password(pw) THEN 401
    ELSE IF phone = "" \/ message = "" THEN 400
    ELSE IF ~ready THEN 503
    ELSE 0

\* main.js:268-277  POST /whatsapp/sendmessage up to its await: a refused
\* request is answered at once, otherwise client.sendMessage is pending.
\* `variant` is what the checks of part_003 give to the same request.
\* Requests are served once the server listens
SendMessage ==
    /\ proc = "up"
    /\ \E hdr \in Headers, phone \in Fields, message \in Fields :
         LET status == Admit(hdr, phone, message, clientReady)
             req == [hdr |-> hdr, phone |-> phone, message |-> message,
                     ready |-> clientReady,
                     variant |-> P3Admit(hdr, env.password, phone, message,
                                         clientReady)]
         IN IF status # 0
            THEN /\ out' = [ev |-> "send", req |-> req, status |-> status,
                            dispatched |-> FALSE, dispatchOk |-> FALSE,
                            pre |-> ctl]
                 /\ UNCHANGED tasks
            ELSE /\ Len(tasks.sends) < MaxSends
                 /\ tasks' = [tasks EXCEPT !.sends = Append(@, req)]
                 /\ out' = [ev |-> "dispatch", req |-> req]
    /\ UNCHANGED <<client, qrValue, clientReady, initializing, handles, inv,
                   sessions, snapshot, settleTimers, intervals, proc, exitCode,
                   mongo, env, hist>>

\* main.js:277-282: client.sendMessage has settled; 200, or 500 from the
\* catch
SendDone(k) ==
    /\ Running
    /\ k \in 1..Len(tasks.sends)
    /\ \E dispatchOk \in BOOLEAN :
         out' = [ev |-> "send", req |-> tasks.sends[k],
                 status |-> SendStatus(dispatchOk), dispatched |-> TRUE,
                 dispatchOk |-> dispatchOk, pre |-> ctl]
    /\ tasks' = [tasks EXCEPT !.sends = RemoveAt(@, k)]
    /\ UNCHANGED <<client, qrValue, clientReady, initializing, handles, inv,
                   sessions, snapshot, settleTimers, intervals, proc, exitCode,
                   mongo, env, hist>>

(* ---------------- the controller's specification ---------------- *)
\* no backupSessions / restoreSessionsIfMissing call has been followed yet
NoCall == [pc |-> "idle", data |-> <<>>, i |-> 0, sess0 |-> {}, clean |-> TRUE,
           ok |-> TRUE, restored |-> FALSE, consulted |-> FALSE, copied |-> 0]

NoHist == [call |-> NoCall, op |-> "none",
           before |-> [op |-> "none", ok |-> TRUE, clean |-> TRUE,
                       restored |-> FALSE],
           chain |-> 0, orig |-> {}]

\* a backup slot holding one document that is not the Credential Record
Snapshot1 == [has |-> TRUE, data |-> <<[id |-> MaxDocs, v |-> 1]>>]

\* a backup slot holding the Credential Record and one more document
Snapshot2 == [has |-> TRUE, data |-> <<CredDoc, [id |-> MaxDocs, v |-> 1]>>]

\* main.js:26-29: the module has loaded; nothing has run yet
Loaded ==
    /\ client = 0
    /\ qrValue = "null"
    /\ clientReady = FALSE
    /\ initializing = FALSE
    /\ handles = [h \in HandleIds |-> NoHandle]
    /\ settleTimers = 0
    /\ intervals = 0
    /\ proc = "boot"
    /\ exitCode = -1
    /\ mongo = "init"
    /\ out = NoOut
    /\ hist = NoHist
    /\ tasks = NoTasks

\* the environments of a run: FORCE_PUPPETEER, the configured password,
\* whether store operations can fail, whether the store can stop answering,
\* whether a Credential Record existed at the start, the number of
\* termination signals sent, and whether the constructors of the libraries
\* can throw
Envs(forcePs, passwords, flakys, hangss, signalss, throwss) ==
    [forceP : forcePs, password : passwords, flaky : flakys, hangs : hangss,
     hadRecord : {sessions # {}}, signals : signalss, throws : throwss]

\* runs in which no termination signal is sent, from an empty or a populated
\* store, with and without a backup slot
InitLife ==
    /\ Loaded
    /\ inv = [s \in InvIds |-> Idle]
    /\ sessions \in {{}, {CredDoc}}
    /\ snapshot \in {NoSnapshot, Snapshot2}
    /\ env \in Envs(BOOLEAN, {"secret"}, BOOLEAN, {FALSE}, {0}, {FALSE})
    /\ ~(env.flaky /\ env.forceP)

\* runs in which termination signals are sent: on a store that answers, from
\* an empty primary collection with a backup slot; on a store whose
\* operations can fail or never settle, from a populated primary collection
InitTerm ==
    /\ Loaded
    /\ inv = [s \in InvIds |-> Idle]
    /\ \/ /\ sessions = {} /\ snapshot = Snapshot2
          /\ env \in Envs({FALSE}, {"secret"}, {FALSE}, {FALSE}, 1..MaxSignals, {FALSE})
       \/ /\ sessions = {CredDoc} /\ snapshot = NoSnapshot
          /\ env \in Envs({FALSE}, {"secret"}, {TRUE}, {TRUE}, 1..MaxSignals, {FALSE})

Init == InitLife \/ InitTerm

\* the steps of startup, of the launches, of the handle's events and of the
\* timers
NextLife ==
    \/ Listen
    \/ BootConnectDone
    \/ BootListDone
    \/ BootCountDone
    \/ BootRestoreCountDone
    \/ BootRestoreFindDone
    \/ BootRestoreWriteDone
    \/ \E s \in InvIds : ProbeDone(s)
    \/ \E s \in InvIds : DestroyDone(s)
    \/ \E s \in InvIds : InitOk(s)
    \/ \E s \in InvIds : InitFail(s)
    \/ \E s \in InvIds : BackoffDone(s)
    \/ \E h \in HandleIds : OnQr(h)
    \/ \E h \in HandleIds : OnReady(h)
    \/ \E h \in HandleIds : OnAuthFailure(h)
    \/ \E h \in HandleIds : OnDisconnected(h)
    \/ DisconnectedDone
    \/ \E k \in 1..MaxBackups : BackupFindDone(k)
    \/ \E k \in 1..MaxBackups : BackupUpdateDone(k)
    \/ StoreSave
    \/ SettleTimerFire
    \/ IntervalTick

Next ==
    \/ NextLife
    \/ Sigterm
    \/ \E k \in 1..MaxSignals : TermFindDone(k)
    \/ \E k \in 1..MaxSignals : TermUpdateDone(k)
    \/ \E k \in 1..MaxSignals : TermCloseDone(k)

Spec == Init /\ [][Next]_vars

(* ---------------- the controller with the send endpoint ---------------- *)
\* runs in which send requests are served: from a populated store with a
\* password configured; from an empty store with a backup slot and no
\* password configured
InitSend ==
    /\ Loaded
    /\ inv = [s \in InvIds |-> Idle]
    /\ \/ /\ sessions = {CredDoc}
          /\ snapshot = NoSnapshot
          /\ env \in Envs({FALSE}, {"secret"}, {FALSE}, {FALSE}, {0}, {FALSE})
       \/ /\ sessions = {}
          /\ snapshot = Snapshot1
          /\ env \in Envs({FALSE}, {"undefined"}, {FALSE}, {FALSE}, {0}, {FALSE})

NextSend ==
    \/ NextLife
    \/ SendMessage
    \/ \E k \in 1..MaxSends : SendDone(k)

SendSpec == InitSend /\ [][NextSend]_vars

(* ---------------- backup and restore on the store ---------------------- *)
\* backupSessions() and restoreSessionsIfMissing() called one at a time on a
\* store whose primary collection is also written by the RemoteAuth strategy
\* and can be emptied; each call is cut at its awaits, so a save or a loss of
\* the collection can fall between two of its operations.  `hist` follows
\* the call:
\*   call    pc (idle, find, update, rcount, rfind, rwrite), the array read
\*           and the index of the document being written, the primary
\*           collection at the invocation (sess0), whether nothing else wrote
\*           to the store since then (clean), whether every operation
\*           succeeded (ok), the result, whether the backup slot was read
\*           (consulted) and the number of documents written (copied)
\*   op      what the last step was: call, step, backup or restore (the call
\*           returned), save, clear
\*   before  what had happened last when the call was invoked
\*   chain   progress of the sequence backup, collection emptied, restore
\*           with no error and nothing in between; orig is the collection at
\*           the backup
StoreFrame ==
    UNCHANGED <<client, qrValue, clientReady, initializing, handles, inv,
                settleTimers, intervals, proc, exitCode, mongo, env, out, tasks>>

Invoked(pc) ==
    [call |-> [NoCall EXCEPT !.pc = pc, !.sess0 = sessions],
     op |-> "call",
     before |-> [op |-> hist.op, ok |-> hist.call.ok, clean |-> hist.call.clean,
                 restored |-> hist.call.restored],
     chain |-> IF pc = "rcount" /\ hist.chain = 2 THEN 2 ELSE 0,
     orig |-> IF pc = "rcount" /\ hist.chain = 2 THEN hist.orig ELSE {}]

Stepped(c) == [hist EXCEPT !.call = c, !.op = "step"]

Returned(op, c, chain) ==
    [hist EXCEPT !.call = [c EXCEPT !.pc = "idle", !.data = <<>>, !.i = 0],
                 !.op = op,
                 !.chain = chain,
                 !.orig = IF chain = 0 THEN {}
                          ELSE IF op = "backup" THEN c.sess0 ELSE @]

\* something else than the call wrote to the store
Disturbed(op, chain) ==
    [hist EXCEPT !.call = IF @.pc = "idle" THEN NoCall ELSE [@ EXCEPT !.clean = FALSE],
                 !.op = op,
                 !.chain = chain,
                 !.orig = IF chain = 0 THEN {} ELSE @]

\* main.js:55-57  backupSessions() is called: its find is issued
StBackup ==
    /\ hist.call.pc = "idle"
    /\ hist' = Invoked("find")
    /\ UNCHANGED <<sessions, snapshot>>
    /\ StoreFrame

\* main.js:57-58: the find has settled; the updateOne is issued with the
\* array it returned; a rejection is caught and the call returns
StBackupFindDone ==
    /\ hist.call.pc = "find"
    /\ \E ok \in Outcomes :
         IF ok
         THEN \E arr \in ToArray(sessions) :
                 hist' = Stepped([hist.call EXCEPT !.pc = "update", !.data = arr])
         ELSE hist' = Returned("backup", [hist.call EXCEPT !.ok = FALSE], 0)
    /\ UNCHANGED <<sessions, snapshot>>
    /\ StoreFrame

\* main.js:58-66: the updateOne has settled; the call returns
StBackupUpdateDone ==
    /\ hist.call.pc = "update"
    /\ \E ok \in Outcomes :
         /\ snapshot' = backupSessions(hist.call.data, snapshot, ok)
         /\ hist' = Returned("backup", [hist.call EXCEPT !.ok = ok],
                             IF ok /\ hist.call.clean THEN 1 ELSE 0)
    /\ UNCHANGED sessions
    /\ StoreFrame

\* main.js:69-71  restoreSessionsIfMissing() is called: its count is issued
StRestore ==
    /\ hist.call.pc = "idle"
    /\ hist' = Invoked("rcount")
    /\ UNCHANGED <<sessions, snapshot>>
    /\ StoreFrame

\* the call returns: the sequence backup, emptied, restore is complete when
\* the restore met no error and nothing else wrote to the store
RestoreReturned(c) ==
    Returned("restore", c, IF hist.chain = 2 /\ c.ok /\ c.clean THEN 3 ELSE 0)

\* main.js:71-73: the count has settled
StRestoreCountDone ==
    /\ hist.call.pc = "rcount"
    /\ \E ok \in Outcomes :
         IF ~ok
         THEN hist' = RestoreReturned([hist.call EXCEPT
                          !.ok = FALSE, !.restored = restoreCatch("count").restored])
         ELSE IF RestoreSkips(Cardinality(sessions))
         THEN hist' = RestoreReturned(hist.call)
         ELSE hist' = Stepped([hist.call EXCEPT !.pc = "rfind", !.consulted = TRUE])
    /\ UNCHANGED <<sessions, snapshot>>
    /\ StoreFrame

\* main.js:73-78: the findOne of the backup slot has settled
StRestoreFindDone ==
    /\ hist.call.pc = "rfind"
    /\ \E ok \in Outcomes :
         IF ~ok
         THEN hist' = RestoreReturned([hist.call EXCEPT
                          !.ok = FALSE, !.restored = restoreCatch("find").restored])
         ELSE IF NothingToRestore(snapshot)
         THEN hist' = RestoreReturned(hist.call)
         ELSE hist' = Stepped([hist.call EXCEPT !.pc = "rwrite",
                                               !.data = snapshot.data, !.i = 1])
    /\ UNCHANGED <<sessions, snapshot>>
    /\ StoreFrame

\* main.js:76-84: the updateOne of document i has settled (a rejection is
\* caught and logged); the next one is issued, or the call returns true
StRestoreWriteDone ==
    /\ hist.call.pc = "rwrite"
    /\ \E ok \in Outcomes :
         LET c == hist.call
             d == [c EXCEPT !.ok = @ /\ ok,
                            !.copied = IF ok THEN @ + 1 ELSE @]
         IN /\ sessions' = (IF ok THEN Upsert(sessions, c.data[c.i]) ELSE sessions)
            /\ hist' = IF c.i < Len(c.data)
                       THEN Stepped([d EXCEPT !.i = @ + 1])
                       ELSE RestoreReturned([d EXCEPT !.restored = TRUE])
    /\ UNCHANGED snapshot
    /\ StoreFrame

\* the primary collection is emptied (an administrative action, or a lost
\* database)
StClear ==
    /\ sessions' = {}
    /\ hist' = Disturbed("clear", IF hist.chain = 1 /\ hist.call.pc = "idle"
                                  THEN 2 ELSE 0)
    /\ UNCHANGED snapshot
    /\ StoreFrame

\* main.js:127, 175-179: the RemoteAuth strategy saves or refreshes one
\* document of the primary collection through the store
StSave ==
    /\ \E d \in Docs : sessions' = Upsert(sessions, d)
    /\ hist' = Disturbed("save", 0)
    /\ UNCHANGED snapshot
    /\ StoreFrame

Snapshots ==
    {NoSnapshot} \cup
    {[has |-> TRUE, data |-> a] : a \in UNION {ToArray(c) : c \in Collections}}

InitStore ==
    /\ client = 0
    /\ qrValue = "null"
    /\ clientReady = FALSE
    /\ initializing = FALSE
    /\ handles = [h \in HandleIds |-> NoHandle]
    /\ inv = [s \in InvIds |-> Idle]
    /\ sessions \in Collections
    /\ snapshot \in Snapshots
    /\ settleTimers = 0
    /\ intervals = 0
    /\ proc = "up"
    /\ exitCode = -1
    /\ mongo = "connected"
    /\ env = [forceP |-> FALSE, password |-> "secret", flaky |-> TRUE,
              hangs |-> FALSE, hadRecord |-> FALSE, signals |-> 0,
              throws |-> FALSE]
    /\ out = NoOut
    /\ hist = NoHist
    /\ tasks = NoTasks

NextStore ==
    \/ StBackup
    \/ StBackupFindDone
    \/ StBackupUpdateDone
    \/ StRestore
    \/ StRestoreCountDone
    \/ StRestoreFindDone
    \/ StRestoreWriteDone
    \/ StClear
    \/ StSave

StoreSpec == InitStore /\ [][NextStore]_vars

(* ---------------- the controller under fair scheduling ---------------- *)
\* The event loop runs every due timer and the continuation of every await
\* whose operation has settled; on an available store every operation
\* settles, and so do destroy(), initialize() and the backoff sleep (weak
\* fairness).  Nothing makes an initialize() call succeed or a handle emit
\* ready: the events of the library carry no fairness.
InitFair ==
    /\ InitLife
    /\ ~env.flaky

Fairness ==
    /\ WF_vars(Listen)
    /\ WF_vars(BootConnectDone)
    /\ WF_vars(BootListDone)
    /\ WF_vars(BootCountDone)
    /\ WF_vars(BootRestoreCountDone)
    /\ WF_vars(BootRestoreFindDone)
    /\ WF_vars(BootRestoreWriteDone)
    /\ WF_vars(DisconnectedDone)
    /\ WF_vars(\E k \in 1..MaxBackups : BackupFindDone(k))
    /\ WF_vars(\E k \in 1..MaxBackups : BackupUpdateDone(k))
    /\ WF_vars(\E s \in InvIds : ProbeDone(s))
    /\ WF_vars(\E s \in InvIds : DestroyDone(s))
    /\ WF_vars(\E s \in InvIds : InitOk(s) \/ InitFail(s))
    /\ WF_vars(\E s \in InvIds : BackoffDone(s))
    /\ WF_vars(SettleTimerFire)
    /\ WF_vars(IntervalTick)

FairSpec == InitFair /\ [][NextLife]_vars /\ Fairness

(* ---------------- the launch path of the part_003 variant ------------- *)
\* src/unnamed/part_003 keeps the same module-level variables (client,
\* qrValue, clientReady, initializing).  initWhatsAppClient makes a single
\* initialize attempt and is called from timers only: 3 s after the server
\* listens and 15 s after a disconnected handler has finished.  It never
\* destroys the client it replaces; only the disconnected handler calls
\* destroy(), on whatever `client` refers to at that moment.
\* In this variant `inv` holds the async functions waiting at an await: an
\* initWhatsAppClient at its initialize() call on handle h (pc "init"), or a
\* disconnected handler at its destroy() call (pc "closing").
\* The variant pins no version of the library, and with RemoteAuth the
\* initialize() call may stay pending after the handle has authenticated, so
\* the events of a handle arrive while it is starting as well as once it is up.
P3Idle == [pc |-> "idle", h |-> 0]

\* the initialize() calls that have not settled yet
P3Pending == {s \in InvIds : inv[s].pc = "init"}

\* handle slots a new Client can take: never built or destroyed, and no
\* pending initialize() call refers to them
P3Reusable == {h \in HandleIds : /\ handles[h].st \in {"free", "dead"}
                                 /\ \A s \in P3Pending : inv[s].h # h}

\* In this variant the strategy keeps the session in the collections whose
\* names start with whatsapp-RemoteAuth-<clientId> (part_003:73, 83), and
\* the code decides by the names of the collections that exist.  `sessions`
\* holds these collections: id tells the collection (1 the .files and 2 the
\* .chunks collection of the strategy's bucket), v its contents, 0 for a
\* collection that exists and holds no document.  The data of the backup
\* slot is the map of backupRemoteAuthCollections, an entry per collection
\* in the order they were read.
\* a collection as the strategy writes it (the contents of two saved
\* sessions are not told apart)
P3Saved(id) == [id |-> id, v |-> 1]

P3Snapshot2 == [has |-> TRUE, data |-> <<P3Saved(1), P3Saved(MaxDocs)>>]

\* a backup document whose data is the empty map
P3SnapshotEmpty == [has |-> TRUE, data |-> <<>>]

\* the store holds a session the handle can resume from
P3HasCred == \E c \in sessions : c.v > 0

\* part_003:71-75  findRemoteAuthCollections: the names of the collections
\* that start with the prefix
findRemoteAuthCollections(sess) == {c.id : c \in sess}

\* part_003:84: find({}).toArray() on a collection; a collection that does
\* not exist (any more) yields no document
P3Find(sess, id) ==
    IF \E c \in sess : c.id = id
    THEN CHOOSE c \in sess : c.id = id
    ELSE [id |-> id, v |-> 0]

\* part_003:105-107: the documents of a backup entry are inserted when no
\* collection of that name exists and the entry holds documents
P3MustInsert(sess, entry) ==
    /\ entry.id \notin findRemoteAuthCollections(sess)
    /\ entry.v > 0

\* part_003:87-95  backupRemoteAuthCollections, given the map it has read:
\* overwrite the slot with it; an error is caught and logged
backupRemoteAuthCollections(arr, snap, ok) ==
    IF ok THEN [has |-> TRUE, data |-> arr] ELSE snap

\* a backupRemoteAuthCollections() call at its listCollections
P3BackupCalled == [pc |-> "list", data |-> <<>>, todo |-> <<>>]

\* part_003:80-87: the listCollections has settled with these names; the
\* find on the first RemoteAuth collection is issued, or the updateOne when
\* there is none
P3BackupListed(names) ==
    [pc |-> IF Len(names) = 0 THEN "update" ELSE "find", data |-> <<>>,
     todo |-> names]

\* part_003:82-87: the find on a collection has settled; the find on the
\* next one is issued, or the updateOne with the map
P3BackupRead(t, sess) ==
    [pc |-> IF Len(t.todo) = 1 THEN "update" ELSE "find",
     data |-> Append(t.data, P3Find(sess, Head(t.todo))),
     todo |-> Tail(t.todo)]

\* part_003:268-282: the checks of the listen callback have ended, with or
\* without an error (it is caught and logged); the 3 s timer that calls
\* initWhatsAppClient is set
P3BootEnd(error, restored) ==
    /\ tasks' = [tasks EXCEPT !.boot = [NoBoot EXCEPT !.pc = "done"]]
    /\ settleTimers' = settleTimers + 1
    /\ out' = [ev |-> "p3_listen", error |-> error, restored |-> restored]

\* part_003:258-262 and 58: the listen callback runs up to mongoose.connect
P3Listen ==
    /\ proc = "boot"
    /\ proc' = "up"
    /\ tasks' = [tasks EXCEPT !.boot = [NoBoot EXCEPT !.pc = "connect"]]
    /\ out' = NoOut
    /\ UNCHANGED <<client, qrValue, clientReady, initializing, handles, inv,
                   sessions, snapshot, settleTimers, intervals, exitCode, mongo,
                   env, hist>>

\* part_003:58-64: mongoose.connect has settled; listCollections is issued
P3BootConnectDone ==
    /\ Running
    /\ tasks.boot.pc = "connect"
    /\ \E ok \in Outcomes :
         IF ok
         THEN /\ mongo' = "connected"
              /\ tasks' = [tasks EXCEPT !.boot.pc = "list"]
              /\ out' = NoOut
              /\ UNCHANGED settleTimers
         ELSE /\ mongo' = "failed"
              /\ P3BootEnd(TRUE, FALSE)
    /\ UNCHANGED <<client, qrValue, clientReady, initializing, handles, inv,
                   sessions, snapshot, intervals, proc, exitCode, env, hist>>

\* part_003:64-72: the listCollections of connectMongo has settled; the one
\* of findRemoteAuthCollections is issued
P3BootListDone ==
    /\ Running
    /\ tasks.boot.pc = "list"
    /\ \E ok \in Outcomes :
         IF ok
         THEN /\ tasks' = [tasks EXCEPT !.boot.pc = "colls"]
              /\ out' = NoOut
              /\ UNCHANGED settleTimers
         ELSE P3BootEnd(TRUE, FALSE)
    /\ UNCHANGED <<client, qrValue, clientReady, initializing, handles, inv,
                   sessions, snapshot, intervals, proc, exitCode, mongo, env,
                   hist>>

\* part_003:72-75, 265-267 and 101: findRemoteAuthCollections has settled;
\* when no RemoteAuth collection exists the restore reads the backup slot
P3BootCollsDone ==
    /\ Running
    /\ tasks.boot.pc = "colls"
    /\ \E ok \in Outcomes :
         IF ~ok THEN P3BootEnd(TRUE, FALSE)
         ELSE IF findRemoteAuthCollections(sessions) # {}
         THEN P3BootEnd(FALSE, FALSE)
         ELSE /\ tasks' = [tasks EXCEPT !.boot.pc = "rfind"]
              /\ out' = NoOut
              /\ UNCHANGED settleTimers
    /\ UNCHANGED <<client, qrValue, clientReady, initializing, handles, inv,
                   sessions, snapshot, intervals, proc, exitCode, mongo, env,
                   hist>>

\* part_003:104-113: the loop of the restore goes to entry i of the backup
\* (hasNext is issued on its name), or the restore returns true after the
\* last one
P3RestoreGoto(i) ==
    IF i <= Len(tasks.boot.data)
    THEN /\ tasks' = [tasks EXCEPT !.boot.pc = "rexists", !.boot.i = i]
         /\ out' = NoOut
         /\ UNCHANGED settleTimers
    ELSE P3BootEnd(FALSE, TRUE)

\* part_003:101-105: the findOne of the backup slot has settled: an error is
\* caught (false); no backup document gives false; a backup whose map is
\* empty gives true; otherwise the existence of the first collection is asked
P3RestoreFindDone ==
    /\ Running
    /\ tasks.boot.pc = "rfind"
    /\ \E ok \in Outcomes :
         IF ~ok \/ ~snapshot.has THEN P3BootEnd(FALSE, FALSE)
         ELSE IF Len(snapshot.data) = 0 THEN P3BootEnd(FALSE, TRUE)
         ELSE /\ tasks' = [tasks EXCEPT !.boot.pc = "rexists",
                                        !.boot.data = snapshot.data,
                                        !.boot.i = 1]
              /\ out' = NoOut
              /\ UNCHANGED settleTimers
    /\ UNCHANGED <<client, qrValue, clientReady, initializing, handles, inv,
                   sessions, snapshot, intervals, proc, exitCode, mongo, env,
                   hist>>

\* part_003:105-113: the existence check of entry i has settled: a missing
\* collection with documents in the backup is inserted; otherwise the loop
\* goes on; an error is caught (false)
P3RestoreExistsDone ==
    /\ Running
    /\ tasks.boot.pc = "rexists"
    /\ \E ok \in Outcomes :
         IF ~ok THEN P3BootEnd(FALSE, FALSE)
         ELSE IF P3MustInsert(sessions, tasks.boot.data[tasks.boot.i])
         THEN /\ tasks' = [tasks EXCEPT !.boot.pc = "rinsert"]
              /\ out' = NoOut
              /\ UNCHANGED settleTimers
         ELSE P3RestoreGoto(tasks.boot.i + 1)
    /\ UNCHANGED <<client, qrValue, clientReady, initializing, handles, inv,
                   sessions, snapshot, intervals, proc, exitCode, mongo, env,
                   hist>>

\* part_003:108-116: the insertMany of entry i has settled: the loop goes
\* on; an error is caught (false) and the collections inserted before stay
P3RestoreInsertDone ==
    /\ Running
    /\ tasks.boot.pc = "rinsert"
    /\ \E ok \in Outcomes :
         IF ok
         THEN /\ sessions' = Upsert(sessions, tasks.boot.data[tasks.boot.i])
              /\ P3RestoreGoto(tasks.boot.i + 1)
         ELSE /\ UNCHANGED sessions
              /\ P3BootEnd(FALSE, FALSE)
    /\ UNCHANGED <<client, qrValue, clientReady, initializing, handles, inv,
                   snapshot, intervals, proc, exitCode, mongo, env, hist>>

\* part_003:126-201  initWhatsAppClient up to its await: the guard, the flag,
\* a new Client (the old one is left as it is), the handlers, and the
\* initialize() call.  The output records how many earlier initialize()
\* calls were still pending
initWhatsAppClient ==
    IF initializing
    THEN /\ out' = [ev |-> "p3_skip", pendingBefore |-> Cardinality(P3Pending)]
         /\ UNCHANGED <<client, initializing, handles, inv>>
    ELSE LET h == CHOOSE x \in P3Reusable : \A g \in P3Reusable : x <= g
         IN /\ initializing' = TRUE
            /\ client' = h
            /\ handles' = [handles EXCEPT ![h] = [NoHandle EXCEPT !.st = "starting"]]
            /\ inv' = [inv EXCEPT ![FreeSlot] = [pc |-> "init", h |-> h]]
            /\ out' = [ev |-> "p3_launch",
                       pendingBefore |-> Cardinality(P3Pending)]

\* part_003:193-196 and 282: a timer fires and calls initWhatsAppClient
P3TimerFire ==
    /\ proc = "up"
    /\ settleTimers > 0
    /\ initializing \/ (IdleSlots # {} /\ P3Reusable # {})
    /\ settleTimers' = settleTimers - 1
    /\ initWhatsAppClient
    /\ UNCHANGED <<qrValue, clientReady, sessions, snapshot, intervals, proc,
                   exitCode, mongo, env, hist, tasks>>

\* part_003:199-207  the initialize() call settled: logged either way, and
\* finally { initializing = false }.  A call on a destroyed handle rejects
P3InitSettled(s) ==
    /\ proc = "up"
    /\ inv[s].pc = "init"
    /\ \E ok \in BOOLEAN :
         /\ ok => handles[inv[s].h].st = "starting"
         /\ handles' = [handles EXCEPT ![inv[s].h].st =
                           IF @ = "starting"
                           THEN (IF ok THEN "up" ELSE "failed") ELSE @]
         /\ out' = [ev |-> "p3_settled", ok |-> ok]
    /\ initializing' = FALSE
    /\ inv' = [inv EXCEPT ![s] = P3Idle]
    /\ UNCHANGED <<client, qrValue, clientReady, sessions, snapshot, settleTimers,
                   intervals, proc, exitCode, mongo, env, hist, tasks>>

\* part_003:156-165  client.on("qr")
P3OnQr(h) ==
    /\ proc = "up"
    /\ Live(h) /\ ~handles[h].authed
    /\ qrValue' = "qr"
    /\ handles' = [handles EXCEPT ![h].challenged = TRUE]
    /\ out' = [ev |-> "qr", wasReady |-> clientReady]
    /\ UNCHANGED <<client, clientReady, initializing, inv, sessions, snapshot,
                   settleTimers, intervals, proc, exitCode, mongo, env, hist, tasks>>

\* part_003:176-180  client.on("ready")
P3OnReady(h) ==
    /\ proc = "up"
    /\ Live(h) /\ ~handles[h].authed
    /\ P3HasCred \/ handles[h].challenged
    /\ clientReady' = TRUE
    /\ qrValue' = "null"
    /\ handles' = [handles EXCEPT ![h].authed = TRUE, ![h].challenged = FALSE]
    /\ out' = [ev |-> "ready", wasReady |-> clientReady]
    /\ UNCHANGED <<client, initializing, inv, sessions, snapshot, settleTimers,
                   intervals, proc, exitCode, mongo, env, hist, tasks>>

\* part_003:132, 149: the RemoteAuth strategy of an authenticated handle
\* writes a collection of its session through the store, after it has
\* authenticated and then every backupSyncIntervalMs
P3StoreSave(h) ==
    /\ proc = "up"
    /\ Live(h) /\ handles[h].authed
    /\ mongo = "connected"
    /\ \E id \in DocIds : /\ P3Saved(id) \notin sessions
                          /\ sessions' = Upsert(sessions, P3Saved(id))
    /\ out' = NoOut
    /\ UNCHANGED <<client, qrValue, clientReady, initializing, handles, inv,
                   snapshot, settleTimers, intervals, proc, exitCode, mongo, env,
                   hist, tasks>>

\* part_003:171-174 and 79-80  client.on("remote_session_saved") up to its
\* await: the handler calls backupRemoteAuthCollections(), whose
\* listCollections is pending; without a connection there is no db object,
\* the call throws inside the try and the backup ends at once
P3OnRemoteSessionSaved(h) ==
    /\ proc = "up"
    /\ Live(h) /\ handles[h].authed
    /\ Len(tasks.backups) < MaxBackups
    /\ IF mongo = "connected"
       THEN /\ tasks' = [tasks EXCEPT !.backups = Append(@, P3BackupCalled)]
            /\ out' = [ev |-> "remote_session_saved"]
       ELSE /\ UNCHANGED tasks
            /\ out' = [ev |-> "backup", from |-> "saved", backupOk |-> FALSE]
    /\ UNCHANGED <<client, qrValue, clientReady, initializing, handles, inv,
                   sessions, snapshot, settleTimers, intervals, proc, exitCode,
                   mongo, env, hist>>

\* part_003:80-87: the listCollections of a backup has settled, the names in
\* the order the store yields them; a rejection is caught and ends the backup
P3BackupListDone(k) ==
    /\ Running
    /\ k \in 1..Len(tasks.backups)
    /\ tasks.backups[k].pc = "list"
    /\ \E ok \in Outcomes :
         IF ok
         THEN /\ \E names \in ToArray(findRemoteAuthCollections(sessions)) :
                   tasks' = [tasks EXCEPT !.backups[k] = P3BackupListed(names)]
              /\ out' = NoOut
         ELSE /\ tasks' = [tasks EXCEPT !.backups = RemoveAt(@, k)]
              /\ out' = [ev |-> "backup", from |-> "saved", backupOk |-> FALSE]
    /\ UNCHANGED <<client, qrValue, clientReady, initializing, handles, inv,
                   sessions, snapshot, settleTimers, intervals, proc, exitCode,
                   mongo, env, hist>>

\* part_003:82-87: the find on one collection has settled
P3BackupFindDone(k) ==
    /\ Running
    /\ k \in 1..Len(tasks.backups)
    /\ tasks.backups[k].pc = "find"
    /\ \E ok \in Outcomes :
         IF ok
         THEN /\ tasks' = [tasks EXCEPT !.backups[k] = P3BackupRead(@, sessions)]
              /\ out' = NoOut
         ELSE /\ tasks' = [tasks EXCEPT !.backups = RemoveAt(@, k)]
              /\ out' = [ev |-> "backup", from |-> "saved", backupOk |-> FALSE]
    /\ UNCHANGED <<client, qrValue, clientReady, initializing, handles, inv,
                   sessions, snapshot, settleTimers, intervals, proc, exitCode,
                   mongo, env, hist>>

\* part_003:87-95: the updateOne of a backup has settled
P3BackupUpdateDone(k) ==
    /\ Running
    /\ k \in 1..Len(tasks.backups)
    /\ tasks.backups[k].pc = "update"
    /\ \E ok \in Outcomes :
         /\ snapshot' = backupRemoteAuthCollections(tasks.backups[k].data,
                                                    snapshot, ok)
         /\ out' = [ev |-> "backup", from |-> "saved", backupOk |-> ok]
    /\ tasks' = [tasks EXCEPT !.backups = RemoveAt(@, k)]
    /\ UNCHANGED <<client, qrValue, clientReady, initializing, handles, inv,
                   sessions, settleTimers, intervals, proc, exitCode, mongo, env,
                   hist>>

\* part_003:182-185  client.on("auth_failure")
P3OnAuthFailure(h) ==
    /\ proc = "up"
    /\ Live(h)
    /\ clientReady' = FALSE
    /\ handles' = [handles EXCEPT ![h].authed = FALSE]
    /\ out' = [ev |-> "auth_failure", wasReady |-> clientReady]
    /\ UNCHANGED <<client, qrValue, initializing, inv, sessions, snapshot,
                   settleTimers, intervals, proc, exitCode, mongo, env, hist, tasks>>

\* part_003:187-190  client.on("disconnected") up to its await: the flag,
\* then destroy() on the current client; a destroy() that throws is caught
\* and leaves the handle as it was
P3OnDisconnected(h) ==
    /\ proc = "up"
    /\ Live(h) /\ handles[h].authed
    /\ IdleSlots # {}
    /\ Cardinality({s \in InvIds : inv[s].pc = "closing"}) + settleTimers < MaxTimers
    /\ clientReady' = FALSE
    /\ \E destroyOk \in BOOLEAN :
         handles' = (IF destroyOk THEN Destroyed(handles, client) ELSE handles)
    /\ inv' = [inv EXCEPT ![FreeSlot] = [pc |-> "closing", h |-> client]]
    /\ out' = [ev |-> "disconnected", wasReady |-> clientReady]
    /\ UNCHANGED <<client, qrValue, initializing, sessions, snapshot, settleTimers,
                   intervals, proc, exitCode, mongo, env, hist, tasks>>

\* part_003:191-196  destroy() settled: initializing = false, then the 15 s
\* timer that calls initWhatsAppClient.  The output records how many
\* initialize() calls were pending when the flag was cleared
P3DisconnectedDone(s) ==
    /\ proc = "up"
    /\ inv[s].pc = "closing"
    /\ initializing' = FALSE
    /\ settleTimers' = settleTimers + 1
    /\ inv' = [inv EXCEPT ![s] = P3Idle]
    /\ out' = [ev |-> "p3_released", pendingBefore |-> Cardinality(P3Pending)]
    /\ UNCHANGED <<client, qrValue, clientReady, handles, sessions, snapshot,
                   intervals, proc, exitCode, mongo, env, hist, tasks>>

\* part_003:288-293  SIGTERM up to its first await: with a ready client the
\* backup is called (its listCollections is pending; without a connection it
\* throws at once and destroy() is called); otherwise close() is called
P3TermEnter(pc) ==
    IF pc = "destroy" THEN Destroyed(handles, client) ELSE handles

P3Sigterm ==
    /\ Running
    /\ Len(tasks.terms) < env.signals
    /\ LET pc == IF client # 0 /\ clientReady
                 THEN (IF mongo = "connected" THEN "list" ELSE "destroy")
                 ELSE "close"
       IN /\ tasks' = [tasks EXCEPT !.terms =
                           Append(@, [P3BackupCalled EXCEPT !.pc = pc])]
          /\ handles' = P3TermEnter(pc)
          /\ out' = [ev |-> "sigterm", persists |-> IF pc = "close" THEN 0 ELSE 1,
                     issued |-> pc = "list"]
    /\ UNCHANGED <<client, qrValue, clientReady, initializing, inv, sessions,
                   snapshot, settleTimers, intervals, proc, exitCode, mongo, env,
                   hist>>

\* part_003:80-87 and 292-293: the listCollections of the handler's backup
\* has settled; a rejection is caught, the backup ends and destroy() is called
P3TermListDone(k) ==
    /\ Running
    /\ k \in 1..Len(tasks.terms)
    /\ tasks.terms[k].pc = "list"
    /\ \E ok \in Outcomes :
         IF ok
         THEN /\ \E names \in ToArray(findRemoteAuthCollections(sessions)) :
                   tasks' = [tasks EXCEPT !.terms[k] = P3BackupListed(names)]
              /\ out' = NoOut
              /\ UNCHANGED handles
         ELSE /\ tasks' = [tasks EXCEPT !.terms[k].pc = "destroy"]
              /\ handles' = P3TermEnter("destroy")
              /\ out' = [ev |-> "term_backup", backupOk |-> FALSE]
    /\ UNCHANGED <<client, qrValue, clientReady, initializing, inv, sessions,
                   snapshot, settleTimers, intervals, proc, exitCode, mongo, env,
                   hist>>

\* part_003:82-87 and 292-293: the find on one collection has settled
P3TermFindDone(k) ==
    /\ Running
    /\ k \in 1..Len(tasks.terms)
    /\ tasks.terms[k].pc = "find"
    /\ \E ok \in Outcomes :
         IF ok
         THEN /\ tasks' = [tasks EXCEPT !.terms[k] = P3BackupRead(@, sessions)]
              /\ out' = NoOut
              /\ UNCHANGED handles
         ELSE /\ tasks' = [tasks EXCEPT !.terms[k] =
                               [P3BackupCalled EXCEPT !.pc = "destroy"]]
              /\ handles' = P3TermEnter("destroy")
              /\ out' = [ev |-> "term_backup", backupOk |-> FALSE]
    /\ UNCHANGED <<client, qrValue, clientReady, initializing, inv, sessions,
                   snapshot, settleTimers, intervals, proc, exitCode, mongo, env,
                   hist>>

\* part_003:87-95 and 292-293: the updateOne of the handler's backup has
\* settled; destroy() is called on the client
P3TermUpdateDone(k) ==
    /\ Running
    /\ k \in 1..Len(tasks.terms)
    /\ tasks.terms[k].pc = "update"
    /\ \E ok \in Outcomes :
         /\ snapshot' = backupRemoteAuthCollections(tasks.terms[k].data,
                                                    snapshot, ok)
         /\ out' = [ev |-> "term_backup", backupOk |-> ok]
    /\ tasks' = [tasks EXCEPT !.terms[k] = [P3BackupCalled EXCEPT !.pc = "destroy"]]
    /\ handles' = P3TermEnter("destroy")
    /\ UNCHANGED <<client, qrValue, clientReady, initializing, inv, sessions,
                   settleTimers, intervals, proc, exitCode, mongo, env, hist>>

\* part_003:293-295: destroy() has settled (a rejection is caught); close()
\* is called
P3TermDestroyDone(k) ==
    /\ Running
    /\ k \in 1..Len(tasks.terms)
    /\ tasks.terms[k].pc = "destroy"
    /\ tasks' = [tasks EXCEPT !.terms[k].pc = "close"]
    /\ out' = NoOut
    /\ UNCHANGED <<client, qrValue, clientReady, initializing, handles, inv,
                   sessions, snapshot, settleTimers, intervals, proc, exitCode,
                   mongo, env, hist>>

\* part_003:295-300: close() has settled either way; finally process.exit(0)
P3TermCloseDone(k) ==
    /\ Running
    /\ k \in 1..Len(tasks.terms)
    /\ tasks.terms[k].pc = "close"
    /\ proc' = "exited"
    /\ exitCode' = 0
    /\ \E closeOk \in Outcomes :
         /\ mongo' = (IF closeOk /\ mongo = "connected" THEN "closed" ELSE mongo)
         /\ out' = [ev |-> "exit", closeOk |-> closeOk /\ mongo = "connected"]
    /\ UNCHANGED <<client, qrValue, clientReady, initializing, handles, inv,
                   sessions, snapshot, settleTimers, intervals, env, hist, tasks>>

\* runs of the variant: from a database without RemoteAuth collections, the
\* backup slot holding an empty map; the same with a backup of two
\* collections on a store whose operations can fail (or all succeed); from a
\* populated database without a backup slot, with termination signals
P3Full == {P3Saved(id) : id \in DocIds}

InitP3 ==
    /\ Loaded
    /\ inv = [s \in InvIds |-> P3Idle]
    /\ \/ /\ sessions = {}
          /\ snapshot = P3SnapshotEmpty
          /\ env \in Envs({FALSE}, {"secret"}, {FALSE}, {FALSE}, {0}, {FALSE})
       \/ /\ sessions = {}
          /\ snapshot = P3Snapshot2
          /\ env \in Envs({FALSE}, {"secret"}, {TRUE}, {FALSE}, {0}, {FALSE})
       \/ /\ sessions = P3Full
          /\ snapshot = NoSnapshot
          /\ env \in Envs({FALSE}, {"secret"}, {FALSE}, {FALSE}, 1..MaxSignals, {FALSE})

NextP3 ==
    \/ P3Listen
    \/ P3BootConnectDone
    \/ P3BootListDone
    \/ P3BootCollsDone
    \/ P3RestoreFindDone
    \/ P3RestoreExistsDone
    \/ P3RestoreInsertDone
    \/ P3TimerFire
    \/ \E s \in InvIds : P3InitSettled(s)
    \/ \E h \in HandleIds : P3OnQr(h)
    \/ \E h \in HandleIds : P3OnReady(h)
    \/ \E h \in HandleIds : P3StoreSave(h)
    \/ \E h \in HandleIds : P3OnRemoteSessionSaved(h)
    \/ \E k \in 1..MaxBackups : P3BackupListDone(k)
    \/ \E k \in 1..MaxBackups : P3BackupFindDone(k)
    \/ \E k \in 1..MaxBackups : P3BackupUpdateDone(k)
    \/ \E h \in HandleIds : P3OnAuthFailure(h)
    \/ \E h \in HandleIds : P3OnDisconnected(h)
    \/ \E s \in InvIds : P3DisconnectedDone(s)
    \/ P3Sigterm
    \/ \E k \in 1..MaxSignals : P3TermListDone(k)
    \/ \E k \in 1..MaxSignals : P3TermFindDone(k)
    \/ \E k \in 1..MaxSignals : P3TermUpdateDone(k)
    \/ \E k \in 1..MaxSignals : P3TermDestroyDone(k)
    \/ \E k \in 1..MaxSignals : P3TermCloseDone(k)

P3Spec == InitP3 /\ [][NextP3]_vars

(* ---------------- initClient with throwing constructors ---------------- *)
\* Between the guard and the retry loop initClient has no try around
\* `new MongoStore(...)` (main.js:127) and `new Client(...)` with its handler
\* registrations (main.js:174-213).  Whether those constructors throw is up
\* to the libraries; in these runs they may, at every call site of
\* initClient: startup, the settle timer and the re-check interval.
InitException ==
    /\ Loaded
    /\ inv = [s \in InvIds |-> Idle]
    /\ sessions \in {{}, {CredDoc}}
    /\ snapshot \in {NoSnapshot, Snapshot2}
    /\ env \in Envs({FALSE}, {"secret"}, {FALSE}, {FALSE}, {0}, {TRUE})

ExceptionSpec == InitException /\ [][NextLife]_vars

(* ======================= the claims ======================= *)

\* C1: at most one invocation of initClient is between passing the
\* `initializing` guard and releasing it, the flag is set for as long as one
\* is, and a start request (here the settle timer) made meanwhile returns
\* without touching the invocation table, the handles or `client`.
C1_SingleLaunchInFlight ==
    /\ [](Cardinality(InFlight) <= 1)
    /\ [](InFlight # {} => initializing)
    /\ [][(initializing /\ settleTimers' < settleTimers)
             => UNCHANGED <<inv, handles, client, initializing>>]_vars

C1_Witness ==
    /\ out.ev = "settle" /\ out.dropped
    /\ Cardinality(InFlight) = 1
    /\ Cardinality({h \in HandleIds : handles[h].st # "free"}) = 1

\* C2 (as claimed): on a restart that finds a Credential Record in
\* `sessions`, with the store available, FORCE_PUPPETEER unset and no
\* termination signal sent, no Challenge Token is stored while the first
\* initialize() call of the first handle is pending and that handle has not
\* authenticated (no handle has been Ready before that), and the controller
\* reaches Ready.
C2_ResumeWithoutChallenge ==
    /\ []((/\ env.hadRecord /\ ~env.flaky /\ ~env.forceP
           /\ \E s \in InvIds : /\ inv[s].via = "start" /\ inv[s].pc = "init"
                                /\ inv[s].attempt = 1
           /\ client # 0 /\ handles[client].st = "starting"
           /\ ~handles[client].authed /\ ~handles[client].faulted
           /\ \A h \in HandleIds \ {client} : handles[h].st = "free")
          => qrValue = "null")
    /\ (proc = "boot" /\ env.hadRecord /\ ~env.flaky /\ ~env.forceP) ~> clientReady

\* C3: client.sendMessage is called, and a request is answered after a
\* dispatch, only if its x-password equals the configured secret, phone and
\* message are present and clientReady was true when it was served; a 401 or
\* a 503 dispatches nothing and leaves client, clientReady, qrValue and
\* initializing as they were.
C3_DispatchOnlyWhenAuthorizedAndReady ==
    /\ (out.ev = "dispatch" \/ (out.ev = "send" /\ out.dispatched)) =>
          /\ out.req.hdr = env.password
          /\ out.req.phone # "" /\ out.req.message # ""
          /\ out.req.ready
    /\ out.ev = "dispatch" => clientReady
    /\ (out.ev = "send" /\ out.status \in {401, 503}) =>
          ~out.dispatched /\ out.pre = ctl

C3_Witness ==
    /\ out.ev = "send" /\ out.status = 503 /\ ~out.dispatched
    /\ out.req.hdr = env.password /\ out.req.phone # "" /\ out.req.message # ""
    /\ qrValue = "qr" /\ ~clientReady /\ tasks.sends = <<>>

\* C4: the status of a request follows the precedence 401 (secret), 400
\* (missing phone or message), 503 (not Ready when served), then 200 or 500
\* by the outcome of the dispatch.
C4_StatusPrecedence ==
    out.ev = "send" =>
        LET badSecret == out.req.hdr # env.password
            badBody == out.req.phone = "" \/ out.req.message = ""
            ready == out.req.ready
        IN /\ out.status \in {200, 400, 401, 500, 503}
           /\ out.status = 401 <=> badSecret
           /\ out.status = 400 <=> ~badSecret /\ badBody
           /\ out.status = 503 <=> ~badSecret /\ ~badBody /\ ~ready
           /\ out.status = 200 <=> ~badSecret /\ ~badBody /\ ready /\ out.dispatchOk
           /\ out.status = 500 <=> ~badSecret /\ ~badBody /\ ready /\ ~out.dispatchOk

C4_Witness ==
    /\ out.ev = "send" /\ out.status = 401
    /\ out.req.phone = "" /\ ~out.req.ready

\* C5 (as claimed): a disconnected event makes the controller not-ready in
\* the handler's own step; with a Credential Record in the store, the call of
\* initClient made by the settle timer starts a launch; after a disconnect
\* received while Ready no Challenge Token is stored for as long as the
\* controller has not become Ready again; and after such a disconnect the
\* controller is Ready again (when no termination signal is sent).
C5_DisconnectRecovers ==
    /\ [](out.ev = "disconnected" => ~clientReady)
    /\ []((out.ev = "settle" /\ sessions # {}) => ~out.dropped)
    /\ []((out.ev = "disconnected" /\ out.wasReady /\ sessions # {}
            /\ qrValue = "null")
          => ([]~clientReady => [](qrValue = "null")))
    /\ (out.ev = "disconnected" /\ out.wasReady /\ sessions # {}) ~> clientReady

\* C6: within one invocation of initClient every backoff delay is at most the
\* 30000 ms cap and at least the delay waited before it, for attempts 1 to
\* MAX_INIT_RETRIES.
C6_BackoffMonotoneAndCapped ==
    \A s \in InvIds :
        inv[s].pc = "backoff" =>
            /\ inv[s].attempt \in 1..MAX_INIT_RETRIES
            /\ inv[s].wait <= BACKOFF_CAP_MS
            /\ inv[s].prevWait <= inv[s].wait

C6_Witness ==
    \E s \in InvIds :
        /\ inv[s].pc = "backoff" /\ inv[s].attempt = MAX_INIT_RETRIES
        /\ inv[s].wait = BACKOFF_CAP_MS /\ inv[s].prevWait = BACKOFF_CAP_MS

\* C7 (as claimed): when mongoose.connect fails at startup the process exits
\* with a non-zero code.
C7_ConnectFailureIsFatal ==
    mongo = "failed" => proc = "exited" /\ exitCode # 0

\* C8: a restoreSessionsIfMissing call invoked on a primary collection that
\* holds a record, nothing else writing to the store meanwhile, does not read
\* the Snapshot, writes nothing, returns false and leaves the collection as
\* it was; and a restore invoked right after a restore that met no store
\* error leaves the collection as the first one left it.
C8_RestoreIdempotent ==
    (hist.op = "restore" /\ hist.call.clean) =>
        /\ hist.call.sess0 # {} =>
              /\ sessions = hist.call.sess0
              /\ ~hist.call.consulted /\ ~hist.call.restored
              /\ hist.call.copied = 0
        /\ (hist.before.op = "restore" /\ hist.before.ok /\ hist.before.clean)
              => sessions = hist.call.sess0

C8_Witness ==
    /\ hist.op = "restore" /\ hist.call.clean /\ hist.call.ok
    /\ hist.before.op = "restore" /\ hist.before.ok /\ hist.before.clean
    /\ hist.before.restored /\ ~hist.call.restored /\ ~hist.call.consulted
    /\ sessions = hist.call.sess0 /\ Cardinality(sessions) = MaxDocs

\* C9: backupSessions, then the primary collection emptied, then
\* restoreSessionsIfMissing (no store operation failing, nothing else writing
\* to the store) leaves the primary collection holding exactly the record set
\* it held at the backup.
C9_BackupRestoreRoundTrip ==
    hist.chain = 3 => sessions = hist.orig

C9_Witness ==
    /\ hist.chain = 3 /\ hist.call.restored /\ hist.call.copied = MaxDocs
    /\ Cardinality(hist.orig) = MaxDocs /\ sessions = hist.orig

\* C10: after every ready event clientReady is true, qrValue is null and
\* exactly one backupSessions call was made (on a connected store its find is
\* then pending); a ready event on a store without a Credential Record was
\* preceded by a challenge that had set qrValue.
C10_ReadyHandler ==
    /\ out.ev = "ready" =>
          /\ clientReady /\ qrValue = "null" /\ out.persists = 1
          /\ mongo = "connected" =>
                /\ Len(tasks.backups) >= 1
                /\ tasks.backups[Len(tasks.backups)].pc = "find"
          /\ sessions = {} => out.hadQr
    /\ out.ev = "qr" => qrValue # "null"

C10_Witness ==
    /\ out.ev = "ready" /\ out.hadQr /\ ~out.wasReady
    /\ clientReady /\ qrValue = "null"
    /\ sessions = {} /\ ~env.hadRecord
    /\ snapshot = NoSnapshot
    /\ handles[client].fresh
    /\ Len(tasks.backups) = 1

\* C11 (as claimed): a disconnected or auth_failure event that would change
\* the controller (it was Ready) never takes effect while an invocation of
\* initClient is in flight: its handler runs only once the launch has settled.
C11_MidLaunchEventQueued ==
    (out.ev \in {"disconnected", "auth_failure"} /\ out.wasReady) => InFlight = {}

\* C12 (as claimed): a handle constructed by the restart that the settle timer
\* of a disconnect started is in resume mode (no browser options) whatever
\* the `sessions` collection holds, FORCE_PUPPETEER not being set and the
\* store answering every query.
C12_RestartAlwaysResumes ==
    (out.ev = "construct" /\ out.via = "settle" /\ ~env.forceP /\ ~env.flaky)
        => ~out.fresh

\* C13 (as claimed): after every auth_failure event no Challenge Token is
\* current (qrValue is null) and the controller is not ready.
C13_AuthFailureClearsToken ==
    out.ev = "auth_failure" => qrValue = "null" /\ ~clientReady

\* C14 (as claimed): an auth_failure event leaves the controller with a
\* relaunch of its own under way: an invocation of initClient in flight (in
\* its attempt or its backoff wait) or a timer of the controller pending that
\* will call initClient, so that a new initialize call follows without any
\* further event.
C14_AuthFailureRetries ==
    out.ev = "auth_failure" =>
        \/ InFlight # {}
        \/ settleTimers > 0
        \/ intervals > 0

\* C15 (as claimed): the wait after the first failed attempt is the base
\* delay of 2000 ms, and every later wait is twice the one before it, up to
\* the 30000 ms cap.
C15_BackoffStartsAtBase ==
    \A s \in InvIds :
        inv[s].pc = "backoff" =>
            inv[s].wait = IF inv[s].attempt = 1 THEN BACKOFF_BASE_MS
                          ELSE Min(BACKOFF_CAP_MS, 2 * inv[s].prevWait)

\* C16: one invocation of initClient calls initialize at most MAX_INIT_RETRIES
\* times; the step that ends the wait after the 6th failure starts no attempt,
\* releases `initializing`, leaves no invocation in flight and has the 30 s
\* re-check installed; and, apart from the startup call and the settle timer
\* of a disconnect, a launch starts only with the re-check installed and the
\* controller neither initializing nor ready.
C16_RetryCeiling ==
    /\ [](\A s \in InvIds : inv[s].attempt <= MAX_INIT_RETRIES)
    /\ [](out.ev = "exhausted" =>
             /\ out.attempts = MAX_INIT_RETRIES
             /\ ~initializing /\ InFlight = {} /\ intervals > 0
             /\ \A h \in HandleIds : handles[h].st # "starting")
    /\ [][(InFlight = {} /\ InFlight' # {}
              /\ tasks'.boot = tasks.boot /\ settleTimers' = settleTimers)
             => (intervals > 0 /\ ~initializing /\ ~clientReady)]_vars

C16_Witness ==
    \E s \in InvIds :
        /\ inv[s].via = "interval" /\ inv[s].pc = "init"
        /\ inv[s].attempt = MAX_INIT_RETRIES
        /\ intervals > 0 /\ initializing /\ ~clientReady

\* C17: whenever the controller is not Ready and its last launch ended by
\* exhausting the retries (no invocation in flight, the current handle left
\* failed), a new invocation of initClient eventually starts (no termination
\* signal being sent); this holds after every exhausted cycle.
C17_NeverWedges ==
    (/\ ~clientReady /\ InFlight = {}
     /\ client # 0 /\ handles[client].st = "failed")
        ~> (InFlight # {})

C17_Witness ==
    /\ out.ev = "exhausted" /\ out.via = "interval" /\ out.cycles > 0
    /\ proc = "up" /\ ~clientReady /\ InFlight = {}
    /\ client # 0 /\ handles[client].st = "failed"

\* C18: at most one handle on which destroy() has not been called exists at
\* any time, and whenever a handle is constructed destroy() has been called
\* on every handle constructed before it.
C18_OneHandleAtATime ==
    /\ Cardinality({h \in HandleIds :
                       handles[h].st \in {"starting", "up", "failed"}}) <= 1
    /\ out.ev = "construct" => out.undestroyed = 0

C18_Witness ==
    /\ out.ev = "construct" /\ out.via = "settle" /\ out.undestroyed = 0
    /\ Cardinality(LiveHandles) = 1
    /\ client # 0 /\ handles[client].st = "starting"

\* C19 (as claimed): no handle is constructed while the settle timer of a
\* disconnected event is still pending.
C19_NoLaunchBeforeSettle ==
    out.ev = "construct" => ~out.settlePending

\* C20: on a cold start with an empty `sessions` collection and a non-empty
\* Snapshot (the store answering, no termination signal sent, FORCE_PUPPETEER
\* not set) startup copies the Snapshot's documents into `sessions`, and the
\* handle the startup call of initClient then constructs is in resume mode.
C20_RestoreThenResume ==
    (/\ ~env.hadRecord /\ ~env.flaky /\ ~env.forceP /\ env.signals = 0
     /\ snapshot.has /\ Len(snapshot.data) > 0)
        => /\ out.ev = "startup" =>
                 /\ out.restored /\ ~out.error
                 /\ sessions = {snapshot.data[i] : i \in 1..Len(snapshot.data)}
           /\ (out.ev = "construct" /\ out.via = "start") =>
                 ~out.fresh /\ sessions # {}

C20_Witness ==
    /\ ~env.hadRecord /\ ~env.flaky /\ ~env.forceP /\ env.signals = 0
    /\ snapshot = Snapshot2
    /\ out.ev = "construct" /\ out.via = "start" /\ ~out.fresh
    /\ sessions = {Snapshot2.data[1], Snapshot2.data[2]}
    /\ client # 0 /\ ~handles[client].fresh

\* C21: every handle is constructed in fresh mode exactly when the presence
\* check found no Credential Record or FORCE_PUPPETEER is true, and in resume
\* mode exactly when a record was found and the flag is not set; with the
\* store answering and no shutdown under way, a record is found exactly when
\* `sessions` holds one.
C21_LaunchMode ==
    /\ \A s \in InvIds :
          inv[s].pc # "idle" /\ inv[s].pc # "probe" =>
              (inv[s].fresh <=> (~inv[s].found \/ env.forceP))
    /\ out.ev = "construct" =>
          /\ out.fresh <=> (~out.found \/ env.forceP)
          /\ ~out.fresh <=> (out.found /\ ~env.forceP)
          /\ handles[client].fresh = out.fresh
          /\ (~env.flaky /\ tasks.terms = <<>>) => (out.found <=> sessions # {})

C21_Witness ==
    /\ out.ev = "construct" /\ out.found /\ env.forceP /\ out.fresh
    /\ out.via = "settle" /\ sessions # {}
    /\ handles[client].fresh /\ handles[client].st = "starting"

\* C22 (as claimed): restoreSessionsIfMissing returns true only when at least
\* one document was copied from the backup slot into `sessions`.
C22_RestoreReturnsWhetherCopied ==
    (hist.op = "restore" /\ hist.call.restored) => hist.call.copied > 0

\* C23 (as claimed): if the controller stays Ready from some point on, steps
\* that call backupSessions keep occurring: the ready handler's call is
\* followed by further calls.
C23_PeriodicRepersist ==
    <>[]clientReady => []<><<\E h \in HandleIds : OnReady(h)>>_vars

\* C24 (as claimed), for the restores that copied at least one document: a
\* restore in which a store operation failed returns false.
C24_StoreFailureReturnsFalse ==
    (out.ev = "startup" /\ out.fault # "none" /\ sessions # {}) => ~out.restored

\* C24 (amended): a failure of a store operation inside backupSessions or
\* restoreSessionsIfMissing is swallowed.  At startup the restore's failure
\* raises no startup error and startup goes on to call initClient with the
\* controller state as initialized; the restore returns false when its count
\* or its read of the backup slot failed, and true when writes of documents
\* failed and at least one document was copied.  A failed backup of the ready handler or of the SIGTERM
\* hook leaves client, clientReady, qrValue and initializing as they were,
\* the process runs on, and the hook goes on to close the connection.
C24_StoreFailureSwallowed ==
    /\ (out.ev = "startup" /\ out.fault # "none") =>
          /\ ~out.error /\ proc = "up" /\ mongo = "connected"
          /\ initializing /\ InFlight # {}
          /\ client = 0 /\ ~clientReady /\ qrValue = "null"
          /\ out.fault \in {"count", "find"} => ~out.restored /\ sessions = {}
          /\ (out.fault = "write" /\ sessions # {}) => out.restored
    /\ (out.ev = "backup" /\ ~out.backupOk) =>
          out.pre = ctl /\ Running /\ exitCode = -1
    /\ (out.ev = "term_backup" /\ ~out.backupOk) =>
          /\ out.pre = ctl /\ Running /\ exitCode = -1
          /\ \E k \in 1..Len(tasks.terms) :
                tasks.terms[k].pc \in {"close", "close_hung"}

C24_Witness ==
    /\ out.ev = "startup" /\ out.fault = "write" /\ out.restored /\ ~out.error
    /\ Cardinality(sessions) = 1 /\ Len(snapshot.data) = 2
    /\ initializing /\ InFlight # {}

\* C25: the SIGTERM hook runs backup, then close, then exit, in that order:
\* a hook is at its close only once its backup attempt has ended (performed,
\* failed, or thrown at once for want of a connection), the process exits
\* only from a hook whose close has settled, the exit code is 0, and when an
\* awaited operation of the hook settles, with success or failure, the hook
\* moves on to its next stage; a hook at its close can always settle and exit.
C25_ShutdownOrder ==
    /\ [][\A k \in 1..Len(tasks'.terms) :
            LET new == k > Len(tasks.terms)
                atClose(t) == t.pc \in {"close", "close_hung"}
            IN /\ (atClose(tasks'.terms[k]) /\ (new \/ ~atClose(tasks.terms[k])))
                    => \/ out'.ev = "term_backup"
                       \/ out'.ev = "sigterm" /\ ~out'.issued /\ mongo # "connected"
               /\ (~new /\ tasks.terms[k].pc = "find"
                        /\ tasks'.terms[k] # tasks.terms[k])
                    => tasks'.terms[k].pc \in
                          {"update", "update_hung", "close", "close_hung"}
               /\ (~new /\ tasks.terms[k].pc = "update"
                        /\ tasks'.terms[k] # tasks.terms[k])
                    => atClose(tasks'.terms[k])]_vars
    /\ [][(proc # "exited" /\ proc' = "exited")
             => /\ out'.ev = "exit"
                /\ \E k \in 1..Len(tasks.terms) : tasks.terms[k].pc = "close"]_vars
    /\ [](proc = "exited" => exitCode = 0)
    /\ [](\A k \in 1..Len(tasks.terms) :
             (Running /\ tasks.terms[k].pc = "close") => ENABLED TermCloseDone(k))

C25_Witness ==
    /\ proc = "exited" /\ exitCode = 0
    /\ out.ev = "exit" /\ ~out.closeOk /\ env.flaky
    /\ mongo = "connected" /\ snapshot = NoSnapshot /\ sessions # {}

\* C26 (as claimed): shutdown cannot hang: while a SIGTERM hook is running,
\* also one whose backup or close never completes, the process can still
\* take a step of the hook towards its exit.
C26_ShutdownCannotHang ==
    (Running /\ tasks.terms # <<>>) =>
        ENABLED (\E k \in 1..MaxSignals :
                    TermFindDone(k) \/ TermUpdateDone(k) \/ TermCloseDone(k))

\* C28 (as claimed): at most one 30 s re-check interval is installed at any
\* time.
C28_SingleRecheckTimer ==
    intervals <= 1

\* C29 (as claimed): an initClient call made by the periodic re-check never
\* destroys a healthy handle, one whose initialize call succeeded and that
\* has emitted neither auth_failure nor disconnected since.
C29_RecheckSparesHealthyHandle ==
    (out.ev = "destroy" /\ out.via = "interval") => ~out.healthy

\* C30 (as claimed): whenever initClient destroys the current handle,
\* clientReady is false.
C30_ReadyHandleNeverDestroyed ==
    out.ev = "destroy" => ~out.wasReady

\* C27: in the part_003 variant initWhatsAppClient never runs concurrently
\* with itself: `initializing` is true whenever an initialize() call started
\* by initWhatsAppClient is still pending, also after a disconnected event
\* that arrived during the call, so at most one such call is pending and no
\* launch starts while an earlier one is in flight.
C27_VariantLaunchExclusive ==
    /\ P3Pending # {} => initializing
    /\ Cardinality(P3Pending) <= 1
    /\ out.ev = "p3_launch" => out.pendingBefore = 0

\* C31: a backup never replaces a non-empty Snapshot with an empty one: in
\* every step, if the backup slot holds at least one document before the
\* step it holds at least one after it, also when backupSessions runs (on
\* ready or on SIGTERM) while the primary collection is empty.
C31_BackupKeepsSnapshot ==
    [][Len(snapshot.data) > 0 => Len(snapshot'.data) > 0]_vars

\* C32: every initClient invocation that passed the reentrancy guard
\* releases it on every path out of the function, an exception between the
\* guard and the retry loop included: whenever no invocation is inside
\* initClient, `initializing` is false.
C32_GuardAlwaysReleased ==
    InFlight = {} => ~initializing

\* C33: the send endpoint never serves a request that carries no x-password
\* header: main.js and part_003 both answer it with 401 and dispatch nothing,
\* also when no password is configured in the environment.
C33_HeaderlessRejected ==
    /\ (out.ev = "send" /\ out.req.hdr = "undefined") =>
          /\ out.status = 401
          /\ out.req.variant = 401
          /\ ~out.dispatched
    /\ out.ev = "dispatch" => out.req.hdr # "undefined"

====
